---- MODULE Spec2Model ----
(***************************************************************************)
(* MyCroft productivity bookkeeping: the time-session state machine of     *)
(* TimeTrackingService, the achievement / XP bookkeeping of                *)
(* AchievementService and the streak computations of the activity logger,  *)
(* the analytics service and the status bar.                               *)
(*                                                                         *)
(* Time is counted in minutes.  Session ids (uuidv4) are the indices *)
(* of the heap of session objects.  JavaScript objects are shared by       *)
(* reference: `sess` is the heap, `currentSession` and the local variables *)
(* of suspended calls hold indices into it.                                *)
(***************************************************************************)
EXTENDS Integers, Sequences, FiniteSets, TLC

----------------------------------------------------------------------------
(* Bounds of the model *)
MaxTime == 10
MaxCalls == 3
MaxSessions == 2
MaxAchCalls == 2
MaxDay == 2
MaxLogLen == 2

(* Program constants *)
IDLE_THRESHOLD == 5
HistoryCap == 1000
InitialFocusScore == 10
CustomFocusScore == 8

(* getSessionDuration reads the configured length of the type; 'custom' is 0 *)
ConfigLengths == {5}
SessionTypes == {"pomodoro", "deep-work"}
CustomDurations == {10}
BreakTypes == {"short"}

NoTime == -1
NoSession == 0
NoTimer == 0
Stale == -1

VARIABLES
  now,             \* the clock, minutes
  aliasing,        \* the host's Memento: update keeps the object (TRUE) or stores a clone (FALSE)
  sess,            \* heap of TimeSession objects, index = id
  currentSession,  \* this.currentSession: an id, or NoSession for undefined
  timeSessions,    \* globalState 'timeSessions': the records as last saved
  sessionTimer,    \* this.sessionTimer: a timer handle or NoTimer
  idleTimer,       \* this.idleTimer
  timers,          \* the timeouts pending in the event loop
  tasks,           \* calls suspended at an await
  prompts,         \* open notification dialogs with their then-callbacks
  nCalls,          \* number of operations the user or caller has issued so far
  ret,             \* what the step just taken did and returned
  startedDuringEnd,\* history: sessions created by a start call that began while
                   \* an endSession call was suspended at its await
  profiles,        \* heap of UserProfile objects, by object id
  storedProfile,   \* globalState 'userProfile': an object id, or 0 when absent
  storedActivities,\* globalState 'activities'
  achTasks,        \* AchievementService calls suspended at an await
  achRet,          \* what the AchievementService call that just returned gave back
  rewardGrants,    \* history: how often each achievement's xpReward was awarded
  nAchCalls,       \* number of AchievementService calls issued so far
  xpAwarded,       \* history: the sum of the amounts awardXP was called with by its users
  today,           \* the UTC calendar day of the clock, as a day number
  tz,              \* the time zone of the machine the extension runs on
  importTask,      \* BackupService.importBackup suspended at an await, or NoImport
  streakReport,    \* the streak pair the view drawn last shows
  probe,           \* the last value computed by calculateLevel / calculateActivityXP
  logged,          \* history: the last two activities logged, the latest first
  readme,          \* the rows of the activity table of the remote README.md, the latest first
  loggerActivities,\* ActivityLoggerProvider's this.activities
  shipStore,       \* globalState 'currentStreak', 'lastActivityDate', 'totalShips'
  shipRet,         \* history: what the last shipActivity call did
  projects,        \* globalState 'projects'
  projRet,         \* history: what the last ProjectService call did and returned
  backups,         \* globalState 'backup_<ms>' entries, in the order of keys()
  backupTasks,     \* createAutoBackup calls suspended at an await
  backupClock,     \* the system clock in milliseconds
  bkRet            \* history: the createAutoBackup call that just returned, the keys written

ttVars == <<now, aliasing, sess, currentSession, timeSessions, sessionTimer,
            idleTimer, timers, tasks, prompts, nCalls, ret, startedDuringEnd>>

achVars == <<profiles, storedProfile, storedActivities, achTasks, achRet,
             rewardGrants, nAchCalls, xpAwarded>>

bVars == <<backups, backupTasks, backupClock, bkRet>>

xVars == <<readme, loggerActivities, shipStore, shipRet, projects, projRet, bVars>>

stVars == <<today, tz, xVars, importTask, streakReport, probe, logged>>

vars == <<ttVars, achVars, stVars>>

----------------------------------------------------------------------------
(* Helpers *)

Max(a, b) == IF a >= b THEN a ELSE b
Min(a, b) == IF a <= b THEN a ELSE b

(* Handles and ids are opaque: the smallest one not in use stands for a   *)
(* fresh one.  A variable that holds the handle of a timeout that has     *)
(* fired holds Stale: truthy, and clearTimeout of it does nothing.        *)
FreshId(used) == CHOOSE i \in 1..(Cardinality(used) + 1) :
                   i \notin used /\ \A j \in 1..(i-1) : j \in used

nextTimer == FreshId({tm.h : tm \in timers})
nextTask == FreshId({t.tid : t \in tasks})
nextPrompt == FreshId({p.pid : p \in prompts})

NoRet == [call |-> "none", origin |-> "none", owner |-> NoSession,
          created |-> NoSession, result |-> NoSession, threw |-> FALSE]

Ret(call, origin, owner, created, result, threw) ==
  [call |-> call, origin |-> origin, owner |-> owner,
   created |-> created, result |-> result, threw |-> threw]

(* startSession lines 43-53 / startCustomSession lines 265-275 *)
NewSession(id, type, duration, focus) ==
  [id |-> id, type |-> type, isActive |-> TRUE, startTime |-> now,
   endTime |-> NoTime, duration |-> duration, breaks |-> <<>>,
   focusScore |-> focus, interruptions |-> 0]

(* findIndex(s => s.id === id): 0 when absent *)
FindIndex(hist, id) ==
  IF \E i \in 1..Len(hist) : hist[i].id = id
  THEN CHOOSE i \in 1..Len(hist) :
         hist[i].id = id /\ \A j \in 1..(i-1) : hist[j].id # id
  ELSE 0

(* a saveSession that pushes a new record at the end of the list *)
SaveSessionPushes(hist, s) ==
  LET i == FindIndex(hist, s.id)
      h1 == IF i > 0 THEN [hist EXCEPT ![i] = s] ELSE hist \o <<s>>
  IN IF Len(h1) > HistoryCap THEN SubSeq(h1, 1, HistoryCap) ELSE h1

(* saveSession: replace in place or unshift, keep the first HistoryCap *)
SaveSession(hist, s) ==
  LET i == FindIndex(hist, s.id)
      h1 == IF i > 0 THEN [hist EXCEPT ![i] = s] ELSE <<s>> \o hist
  IN IF Len(h1) > HistoryCap THEN SubSeq(h1, 1, HistoryCap) ELSE h1

(* The record of the history as a reader of globalState sees it: the live  *)
(* object when the host keeps references, the saved copy otherwise.        *)
HistoryRecord(i) ==
  IF aliasing THEN sess[timeSessions[i].id] ELSE timeSessions[i]

(* The sessions created since the clock of the model started; the ones    *)
(* an earlier run of the extension left in the store began before time 0   *)
SessionsStarted == Cardinality({i \in DOMAIN sess : sess[i].startTime >= 0})

(* clearTimeout(h) *)
ClearTimeout(ts, h) == {tm \in ts : tm.h # h}

Timer(h, kind, delay, owner) ==
  [h |-> h, kind |-> kind, due |-> now + delay, owner |-> owner]

(* endSession that stamps endTime but leaves the record active *)
FinalizeStillActive(s) ==
  [s EXCEPT !.endTime = now, !.duration = now - s.startTime]

(* endSession that keeps the planned length as the duration *)
FinalizeKeepsPlanned(s) ==
  [s EXCEPT !.endTime = now, !.isActive = FALSE]

(* endSession lines 75-82: finalize the object *)
Finalize(s) ==
  [s EXCEPT !.endTime = now, !.isActive = FALSE, !.duration = now - s.startTime]

(* getRemainingSessionTime, on session object s *)
RECURSIVE ClosedBreakTime(_)
ClosedBreakTime(bs) ==
  IF bs = <<>> THEN 0
  ELSE (IF Head(bs).endTime # NoTime THEN Head(bs).duration ELSE 0)
       + ClosedBreakTime(Tail(bs))

(* a remaining time that leaves the breaks out *)
RemainingWithoutBreaks(s) == Max(0, s.duration - (now - s.startTime))

GetRemainingSessionTime(s) ==
  Max(0, s.duration - (now - s.startTime) + ClosedBreakTime(s.breaks))

(* TimerProvider.calculateRemainingTime lines 274-288: reduce over breaks *)
RECURSIVE BreakTimeReduce(_, _, _)
BreakTimeReduce(bs, k, total) ==
  IF k > Len(bs) THEN total
  ELSE BreakTimeReduce(bs, k + 1,
         IF bs[k].endTime # NoTime THEN total + bs[k].duration ELSE total)

calculateRemainingTime(session) ==
  LET elapsed   == now - session.startTime
      breakTime == BreakTimeReduce(session.breaks, 1, 0)
  IN Max(0, session.duration - elapsed + breakTime)

NewTask(kind, session, nested, stype, dur, origin, owner, overlap) ==
  [tid |-> nextTask, kind |-> kind, session |-> session, nested |-> nested,
   stype |-> stype, dur |-> dur, origin |-> origin, owner |-> owner,
   overlap |-> overlap]

(* An endSession call is suspended at its await of saveSession *)
EndSessionSuspended == \E t \in tasks : t.kind = "endSession"

NewPrompt(kind, session, breakType, owner) ==
  [pid |-> nextPrompt, kind |-> kind, session |-> session,
   breakType |-> breakType, owner |-> owner]

----------------------------------------------------------------------------
(* TimeTrackingService: fragments shared by the handlers *)

(* endSession lines 75-91, up to the await of saveSession *)
EndSessionSync(cur) ==
  /\ sess' = [sess EXCEPT ![cur] = Finalize(@)]
  /\ timers' = ClearTimeout(timers, sessionTimer)
  /\ sessionTimer' = NoTimer
  /\ timeSessions' = SaveSession(timeSessions, Finalize(sess[cur]))

(* startSession lines 41-62, up to the await of saveSession *)
CreateSessionSync(type, dur, origin, owner, otherTasks, overlap) ==
  LET id == Len(sess) + 1
      s  == NewSession(id, type, dur, InitialFocusScore)
  IN /\ SessionsStarted < MaxSessions
     /\ sess' = Append(sess, s)
     /\ currentSession' = id
     /\ timers' = timers \cup {Timer(nextTimer, "session", dur, id)}
     /\ sessionTimer' = nextTimer
     /\ prompts' = prompts \cup {NewPrompt("sessionStarted", id, "short", id)}
     /\ timeSessions' = SaveSession(timeSessions, s)
     /\ tasks' = otherTasks
                   \cup {NewTask("startSession", id, FALSE, type, dur, origin, owner, overlap)}
     /\ startedDuringEnd' = IF overlap THEN startedDuringEnd \cup {id}
                                       ELSE startedDuringEnd

(* endSession called from origin; nested: startSession awaits it (line 38) *)
EndSessionInvoke(origin, owner, nested, stype, dur, overlap) ==
  IF currentSession = NoSession
  THEN /\ ret' = Ret("endSession", origin, owner, NoSession, NoSession, FALSE)
       /\ UNCHANGED <<sess, timers, sessionTimer, timeSessions, tasks>>
  ELSE /\ EndSessionSync(currentSession)
       /\ tasks' = tasks \cup
            {NewTask("endSession", currentSession, nested, stype, dur, origin, owner, overlap)}
       /\ ret' = Ret("none", origin, owner, NoSession, NoSession, FALSE)

(* startBreak that returns quietly when there is no session *)
StartBreakQuiet(type, origin, owner) ==
  IF currentSession = NoSession
  THEN /\ ret' = Ret("startBreak", origin, owner, NoSession, NoSession, FALSE)
       /\ UNCHANGED <<sess, timers, sessionTimer>>
  ELSE /\ sess' = [sess EXCEPT ![currentSession].breaks =
                     Append(@, [startTime |-> now, endTime |-> NoTime,
                                duration |-> 0, type |-> type])]
       /\ timers' = ClearTimeout(timers, sessionTimer)
       /\ sessionTimer' = NoTimer
       /\ ret' = Ret("startBreak", origin, owner, NoSession, currentSession, FALSE)

(* startBreak lines 103-124; it has no await and runs to completion *)
StartBreakInvoke(type, origin, owner) ==
  IF currentSession = NoSession
  THEN /\ ret' = Ret("startBreak", origin, owner, NoSession, NoSession, TRUE)
       /\ UNCHANGED <<sess, timers, sessionTimer>>
  ELSE /\ sess' = [sess EXCEPT ![currentSession].breaks =
                     Append(@, [startTime |-> now, endTime |-> NoTime,
                                duration |-> 0, type |-> type])]
       /\ timers' = ClearTimeout(timers, sessionTimer)
       /\ sessionTimer' = NoTimer
       /\ ret' = Ret("startBreak", origin, owner, NoSession, currentSession, FALSE)

----------------------------------------------------------------------------
(* TimeTrackingService: operations issued by the caller *)

StartSession(type, d) ==
  LET dur == IF type = "custom" THEN 0 ELSE d IN
  /\ nCalls < MaxCalls
  /\ SessionsStarted < MaxSessions
  /\ nCalls' = nCalls + 1
  /\ IF currentSession # NoSession
     THEN /\ EndSessionInvoke("api", NoSession, TRUE, type, dur, EndSessionSuspended)
          /\ UNCHANGED <<currentSession, prompts, startedDuringEnd>>
     ELSE /\ CreateSessionSync(type, dur, "api", NoSession, tasks, EndSessionSuspended)
          /\ ret' = Ret("none", "api", NoSession, Len(sess) + 1, NoSession, FALSE)
  /\ UNCHANGED <<now, aliasing, idleTimer>>
  /\ UNCHANGED <<achVars, stVars>>

EndSession ==
  /\ nCalls < MaxCalls
  /\ nCalls' = nCalls + 1
  /\ EndSessionInvoke("api", NoSession, FALSE, "none", 0, FALSE)
  /\ UNCHANGED <<now, aliasing, currentSession, idleTimer, prompts, startedDuringEnd>>
  /\ UNCHANGED <<achVars, stVars>>

(* startCustomSession lines 260-278, up to the await of saveSession *)
StartCustomSession(d) ==
  /\ nCalls < MaxCalls
  /\ nCalls' = nCalls + 1
  /\ IF currentSession # NoSession /\ sess[currentSession].isActive
     THEN /\ ret' = Ret("startCustomSession", "api", NoSession, NoSession, NoSession, TRUE)
          /\ UNCHANGED <<sess, currentSession, timeSessions, tasks, startedDuringEnd>>
     ELSE LET id == Len(sess) + 1
              s  == NewSession(id, "custom", d, CustomFocusScore)
          IN /\ SessionsStarted < MaxSessions
             /\ sess' = Append(sess, s)
             /\ currentSession' = id
             /\ timeSessions' = SaveSession(timeSessions, s)
             /\ tasks' = tasks \cup
                  {NewTask("startCustomSession", id, FALSE, "custom", d, "api",
                           NoSession, EndSessionSuspended)}
             /\ startedDuringEnd' = IF EndSessionSuspended
                                    THEN startedDuringEnd \cup {id}
                                    ELSE startedDuringEnd
             /\ ret' = Ret("none", "api", NoSession, id, NoSession, FALSE)
  /\ UNCHANGED <<now, aliasing, sessionTimer, idleTimer, timers, prompts>>
  /\ UNCHANGED <<achVars, stVars>>

StartBreak(type) ==
  /\ nCalls < MaxCalls
  /\ nCalls' = nCalls + 1
  /\ StartBreakInvoke(type, "api", NoSession)
  /\ UNCHANGED <<now, aliasing, currentSession, timeSessions, idleTimer, tasks, prompts, startedDuringEnd>>
  /\ UNCHANGED <<achVars, stVars>>

(* endBreak lines 129-151 *)
EndBreak ==
  /\ nCalls < MaxCalls
  /\ nCalls' = nCalls + 1
  /\ IF \/ currentSession = NoSession
        \/ Len(sess[currentSession].breaks) = 0
        \/ sess[currentSession].breaks[Len(sess[currentSession].breaks)].endTime # NoTime
     THEN /\ ret' = Ret("endBreak", "api", NoSession, NoSession, NoSession, FALSE)
          /\ UNCHANGED <<sess, timers, sessionTimer>>
     ELSE LET n  == Len(sess[currentSession].breaks)
              b  == sess[currentSession].breaks[n]
              s1 == [sess[currentSession] EXCEPT !.breaks[n] =
                       [b EXCEPT !.endTime = now, !.duration = now - b.startTime]]
              remainingTime == GetRemainingSessionTime(s1)
          IN /\ sess' = [sess EXCEPT ![currentSession] = s1]
             /\ IF remainingTime > 0
                THEN /\ timers' = timers \cup
                          {Timer(nextTimer, "session", remainingTime, currentSession)}
                     /\ sessionTimer' = nextTimer
                ELSE UNCHANGED <<timers, sessionTimer>>
             /\ ret' = Ret("endBreak", "api", NoSession, NoSession, currentSession, FALSE)
  /\ UNCHANGED <<now, aliasing, currentSession, timeSessions, idleTimer,
                 tasks, prompts, startedDuringEnd>>
  /\ UNCHANGED <<achVars, stVars>>

(* recordActivity lines 304-315: an editor event *)
RecordActivity ==
  /\ nCalls < MaxCalls
  /\ nCalls' = nCalls + 1
  /\ IF currentSession # NoSession /\ sess[currentSession].isActive
     THEN /\ timers' = ClearTimeout(timers, idleTimer)
                         \cup {Timer(nextTimer, "idle", IDLE_THRESHOLD, currentSession)}
          /\ idleTimer' = nextTimer
     ELSE UNCHANGED <<timers, idleTimer>>
  /\ ret' = Ret("recordActivity", "api", NoSession, NoSession, NoSession, FALSE)
  /\ UNCHANGED <<now, aliasing, sess, currentSession, timeSessions, sessionTimer,
                 tasks, prompts, startedDuringEnd>>
  /\ UNCHANGED <<achVars, stVars>>

----------------------------------------------------------------------------
(* TimeTrackingService: continuations, timers and dialogs *)

(* endSession lines 93-97 after the await; when startSession awaited it,   *)
(* startSession goes on with lines 41-62 in the same turn of the event loop *)
ResumeEndSession(t) ==
  /\ t \in tasks /\ t.kind = "endSession"
  /\ IF t.nested
     THEN /\ CreateSessionSync(t.stype, t.dur, t.origin, t.owner, tasks \ {t}, t.overlap)
          /\ ret' = Ret("endSession", t.origin, t.owner, Len(sess) + 1, t.session, FALSE)
     ELSE /\ currentSession' = NoSession
          /\ tasks' = tasks \ {t}
          /\ ret' = Ret("endSession", t.origin, t.owner, NoSession, t.session, FALSE)
          /\ UNCHANGED <<sess, timeSessions, sessionTimer, timers,
                         prompts, startedDuringEnd>>
  /\ UNCHANGED <<now, aliasing, idleTimer, nCalls>>
  /\ UNCHANGED <<achVars, stVars>>

(* startSession line 64 after the await: return this.currentSession *)
ResumeStartSession(t) ==
  /\ t \in tasks /\ t.kind = "startSession"
  /\ tasks' = tasks \ {t}
  /\ ret' = Ret("startSession", t.origin, t.owner, t.session, currentSession, FALSE)
  /\ UNCHANGED <<now, aliasing, sess, currentSession, timeSessions, sessionTimer,
                 idleTimer, timers, prompts, nCalls, startedDuringEnd>>
  /\ UNCHANGED <<achVars, stVars>>

(* startCustomSession lines 279-281 after the await *)
ResumeStartCustomSession(t) ==
  /\ t \in tasks /\ t.kind = "startCustomSession"
  /\ tasks' = tasks \ {t}
  /\ timers' = timers \cup
       {Timer(nextTimer, "session", sess[t.session].duration, t.session)}
  /\ sessionTimer' = nextTimer
  /\ ret' = Ret("startCustomSession", t.origin, t.owner, t.session, t.session, FALSE)
  /\ UNCHANGED <<now, aliasing, sess, currentSession, timeSessions,
                 idleTimer, prompts, nCalls, startedDuringEnd>>
  /\ UNCHANGED <<achVars, stVars>>

(* startSessionTimer's callback lines 342-346 and handleSessionComplete    *)
(* lines 349-375 up to the await of the dialog                             *)
SessionTimerFire(tm) ==
  /\ tm \in timers /\ tm.kind = "session" /\ tm.due <= now
  /\ timers' = timers \ {tm}
  /\ sessionTimer' = IF sessionTimer = tm.h THEN Stale ELSE sessionTimer
  /\ IF currentSession # NoSession
     THEN LET s == sess[currentSession]
              breakType == IF Len(s.breaks) >= 3 THEN "long" ELSE "short"
          IN /\ prompts' = prompts \cup
                  {NewPrompt(IF s.type = "pomodoro" THEN "pomodoroComplete"
                             ELSE "sessionComplete",
                             currentSession, breakType, tm.owner)}
     ELSE UNCHANGED <<prompts>>
  /\ ret' = Ret("none", "timer", tm.owner, NoSession, NoSession, FALSE)
  /\ UNCHANGED <<now, aliasing, sess, currentSession, timeSessions,
                 idleTimer, tasks, nCalls, startedDuringEnd>>
  /\ UNCHANGED <<achVars, stVars>>

(* a penalty without the lower limit *)
IdlePenaltyUnclamped(focusScore) == focusScore - 1

(* line 321: Math.max(1, focusScore - 1) *)
IdlePenalty(focusScore) == Max(1, focusScore - 1)

(* startIdleDetection's callback lines 318-337 *)
IdleTimerFire(tm) ==
  /\ tm \in timers /\ tm.kind = "idle" /\ tm.due <= now
  /\ timers' = timers \ {tm}
  /\ idleTimer' = IF idleTimer = tm.h THEN Stale ELSE idleTimer
  /\ IF currentSession # NoSession /\ sess[currentSession].isActive
     THEN /\ sess' = [sess EXCEPT
                 ![currentSession].focusScore = IdlePenalty(@),
                 ![currentSession].interruptions = @ + 1]
          /\ prompts' = prompts \cup
               {NewPrompt("idle", currentSession, "short", tm.owner)}
          /\ ret' = Ret("idlePenalty", "timer", tm.owner, NoSession, currentSession, FALSE)
     ELSE /\ ret' = Ret("none", "timer", tm.owner, NoSession, NoSession, FALSE)
          /\ UNCHANGED <<sess, prompts>>
  /\ UNCHANGED <<now, aliasing, currentSession, timeSessions, sessionTimer,
                 tasks, nCalls, startedDuringEnd>>
  /\ UNCHANGED <<achVars, stVars>>

(* 'Continue', 'Continue Working' and closing a dialog whose callback     *)
(* does nothing are the same as leaving the dialog open.                  *)
PromptChoices(kind) ==
  CASE kind = "sessionStarted"   -> {"end"}
    [] kind = "idle"             -> {"break", "end"}
    [] kind = "pomodoroComplete" -> {"break", "end"}
    [] kind = "sessionComplete"  -> {"ok"}

(* A dialog opened by a timer callback, or the start notification *)
PromptOrigin(p) == IF p.kind = "sessionStarted" THEN "notice" ELSE "prompt"

(* The then-callbacks of the dialogs: lines 330-336, 366-370, 376, 453-457 *)
PromptResolve(p, choice) ==
  /\ p \in prompts /\ choice \in PromptChoices(p.kind)
  /\ nCalls < MaxCalls
  /\ nCalls' = nCalls + 1
  /\ prompts' = prompts \ {p}
  /\ IF choice = "end" \/ p.kind = "sessionComplete"
     THEN EndSessionInvoke(PromptOrigin(p), p.owner, FALSE, "none", 0, FALSE)
     ELSE /\ StartBreakInvoke(p.breakType, PromptOrigin(p), p.owner)
          /\ UNCHANGED <<timeSessions, tasks>>
  /\ UNCHANGED <<now, aliasing, currentSession, idleTimer, startedDuringEnd>>
  /\ UNCHANGED <<achVars, stVars>>

(* Time passes, observed in steps of the idle threshold; a timeout that   *)
(* is due fires before the clock moves on                                  *)
Tick ==
  /\ now + IDLE_THRESHOLD <= MaxTime
  /\ \A tm \in timers : tm.due > now
  /\ now' = now + IDLE_THRESHOLD
  /\ ret' = NoRet
  /\ UNCHANGED <<aliasing, sess, currentSession, timeSessions, sessionTimer,
                 idleTimer, timers, tasks, prompts, nCalls, startedDuringEnd>>
  /\ UNCHANGED <<achVars, stVars>>

----------------------------------------------------------------------------
(* AchievementService *)

(* constants.ts ACHIEVEMENTS, in the order of Object.entries *)
ACHIEVEMENTS ==
  << [id |-> "first_activity",  xpReward |-> 10],
     [id |-> "streak_7",        xpReward |-> 50],
     [id |-> "streak_30",       xpReward |-> 200],
     [id |-> "pomodoro_master", xpReward |-> 100],
     [id |-> "code_reviewer",   xpReward |-> 75],
     [id |-> "night_owl",       xpReward |-> 25],
     [id |-> "early_bird",      xpReward |-> 25],
     [id |-> "deep_focus",      xpReward |-> 150] >>

LEVEL_THRESHOLDS ==
  << 0, 100, 250, 450, 700, 1000, 1350, 1750, 2200, 2700,
     3250, 3850, 4500, 5200, 5950, 6750, 7600, 8500, 9450, 10450 >>

(* a loop that scans the thresholds from the bottom *)
RECURSIVE LevelLoopAscending(_, _)
LevelLoopAscending(xp, i) ==
  IF i > Len(LEVEL_THRESHOLDS) THEN 1
  ELSE IF xp >= LEVEL_THRESHOLDS[i] THEN i
       ELSE LevelLoopAscending(xp, i + 1)

calculateLevelAscending(xp) == LevelLoopAscending(xp, 1)

(* calculateLevel lines 294-298: for (i = length - 1; i >= 0; i--), with  *)
(* the 0-based index i of the code kept as the 1-based index i + 1        *)
RECURSIVE LevelLoop(_, _)
LevelLoop(xp, i) ==
  IF i < 1 THEN 1
  ELSE IF xp >= LEVEL_THRESHOLDS[i] THEN i
       ELSE LevelLoop(xp, i - 1)

(* AchievementService.calculateLevel *)
calculateLevel(xp) == LevelLoop(xp, Len(LEVEL_THRESHOLDS))

NoProbe == [fn |-> "none", arg |-> 0, result |-> 0, prevArg |-> 0, prevResult |-> 0]

(* xp values around every threshold, and one far above the last *)
XpProbes ==
  {LEVEL_THRESHOLDS[i] + d : i \in 1..Len(LEVEL_THRESHOLDS), d \in {-1, 0, 1}}
    \cup {2 * LEVEL_THRESHOLDS[Len(LEVEL_THRESHOLDS)]}

(* calculateLevel applied to an xp value; the value computed before is kept *)
CalculateLevel(xp) ==
  /\ probe' = [fn |-> "calculateLevel", arg |-> xp, result |-> calculateLevel(xp),
               prevArg |-> IF probe.fn = "calculateLevel" THEN probe.arg ELSE xp,
               prevResult |-> IF probe.fn = "calculateLevel" THEN probe.result
                              ELSE calculateLevel(xp)]
  /\ UNCHANGED <<today, tz, xVars, importTask, streakReport, logged>>
  /\ UNCHANGED <<ttVars, achVars>>

(* constants.ts lines 28-43 *)
CATEGORIES ==
  { "Coding", "Documentation", "Bug Fix", "Feature", "Code Review", "Testing",
    "Debugging", "Refactoring", "Planning", "Learning", "Meeting", "Deployment",
    "Research", "Other" }

(* XP_PER_MINUTE is 0.5: amounts of xp are computed in halves, and         *)
(* TwiceXP_PER_MINUTE is the number of halves earned per minute            *)
XP_PER_ACTIVITY == 5
TwiceXP_PER_MINUTE == 1
XP_BONUS_STREAK == 2
FocusBonus == 5
FocusBonusFrom == 8

(* an optional field of an object is present *)
HasField(obj, f) == f \in DOMAIN obj

(* a category table without any entry *)
categoryBonusesEmpty == [c \in {} |-> 0]

(* calculateActivityXP lines 101-106 *)
categoryBonuses ==
  ("Code Review" :> 3) @@ ("Documentation" :> 2) @@ ("Testing" :> 2) @@ ("Learning" :> 1)

(* line 108: categoryBonuses[activity.category] || 0 *)
CategoryBonus(category) ==
  IF category \in DOMAIN categoryBonuses THEN categoryBonuses[category] ELSE 0

(* Math.round of halves/2: the nearest integer, a half rounded upwards *)
MathRound(halves) == (halves + 1) \div 2

(* AchievementService.calculateActivityXP, lines 83-110 *)
calculateActivityXP(activity, currentStreak) ==
  LET base     == 2 * XP_PER_ACTIVITY
      time     == IF HasField(activity, "duration") /\ activity.duration # 0
                  THEN activity.duration * TwiceXP_PER_MINUTE ELSE 0
      streak   == 2 * currentStreak * XP_BONUS_STREAK
      focus    == IF /\ HasField(activity, "focusScore")
                     /\ activity.focusScore # 0
                     /\ activity.focusScore >= FocusBonusFrom
                  THEN 2 * FocusBonus ELSE 0
      category == 2 * CategoryBonus(activity.category)
  IN MathRound(base + time + streak + focus + category)

(* activities handed to calculateActivityXP: every category of the form,  *)
(* with and without a duration and a focus score                          *)
ProbeDurations == {0, 1, 30}
ProbeFocusScores == {7, 8, 9}
ProbeStreaks == 0..(MaxDay + 1)
ProbeActivities ==
  LET bare    == { [category |-> c] : c \in CATEGORIES }
      timed   == bare \cup { a @@ [duration |-> d] : a \in bare, d \in ProbeDurations }
  IN timed \cup { a @@ [focusScore |-> f] : a \in timed, f \in ProbeFocusScores }

(* calculateActivityXP applied to an activity and a streak *)
CalculateActivityXP(activity, currentStreak) ==
  /\ probe' = [fn |-> "calculateActivityXP", arg |-> <<activity, currentStreak>>,
               result |-> calculateActivityXP(activity, currentStreak),
               prevArg |-> 0, prevResult |-> 0]
  /\ UNCHANGED <<today, tz, xVars, importTask, streakReport, logged>>
  /\ UNCHANGED <<ttVars, achVars>>

(* Math.round of n/d for n >= 0, d > 0 *)
RoundDiv(n, d) == (2 * n + d) \div (2 * d)

(* evaluateAchievement: the rounded progress of a template *)
EvaluateProgress(id, activities, sessions, profile) ==
  LET Acts(Test(_)) == Cardinality({i \in 1..Len(activities) : Test(activities[i])})
      Sess(Test(_)) == Cardinality({i \in 1..Len(sessions) : Test(sessions[i])})
  IN
  CASE id = "first_activity" -> IF Len(activities) > 0 THEN 100 ELSE 0
    [] id = "streak_7" -> Min(RoundDiv(profile.currentStreak * 100, 7), 100)
    [] id = "streak_30" -> Min(RoundDiv(profile.currentStreak * 100, 30), 100)
    [] id = "pomodoro_master" ->
         Min(RoundDiv(Sess(LAMBDA x : x.type = "pomodoro" /\ x.endTime # NoTime) * 100,
                      100), 100)
    [] id = "code_reviewer" ->
         Min(RoundDiv(Acts(LAMBDA a : a.category = "Code Review") * 100, 50), 100)
    [] id = "night_owl" ->
         Min(RoundDiv(Acts(LAMBDA a : a.hour >= 0 /\ a.hour < 6) * 100, 10), 100)
    [] id = "early_bird" ->
         Min(RoundDiv(Acts(LAMBDA a : a.hour >= 5 /\ a.hour < 8) * 100, 10), 100)
    [] id = "deep_focus" ->
         IF Sess(LAMBDA x : x.type = "deep-work" /\ x.endTime # NoTime
                              /\ x.duration >= 120) > 0
         THEN 100 ELSE 0

(* the ids that the switch of evaluateAchievement has a case for *)
RequirementKinds ==
  { "first_activity", "streak_7", "streak_30", "pomodoro_master", "code_reviewer",
    "night_owl", "early_bird", "deep_focus" }

(* null, as an Achievement: no candidate *)
NoCandidate == [id |-> "none", progress |-> 0, xpReward |-> 0, unlockedAt |-> NoTime]

(* evaluateAchievement: the Achievement it returns (lines 279-290), or     *)
(* null for an id without a case (default, lines 275-276)                 *)
evaluateAchievement(template, activities, sessions, profile) ==
  IF template.id \in RequirementKinds
  THEN LET progress == EvaluateProgress(template.id, activities, sessions, profile)
       IN [id |-> template.id, progress |-> progress, xpReward |-> template.xpReward,
           unlockedAt |-> IF progress >= 100 THEN now ELSE NoTime]
  ELSE NoCandidate

(* getUserProfile lines 120-158 *)
DefaultProfile ==
  [xp |-> 0, level |-> 1, currentStreak |-> 0, longestStreak |-> 0,
   achievements |-> <<>>]

(* globalState.update('userProfile', p): the host keeps the object or a copy *)
UpdateUserProfile(heap, p) ==
  IF aliasing
  THEN [heap |-> heap, stored |-> p]
  ELSE LET c == FreshId(DOMAIN heap)
       IN [heap |-> heap @@ (c :> heap[p]), stored |-> c]

(* getUserProfile: the stored object, or a default profile that it stores *)
GetUserProfile(heap, stored) ==
  IF stored = 0
  THEN LET d == FreshId(DOMAIN heap)
           u == UpdateUserProfile(heap @@ (d :> DefaultProfile), d)
       IN [heap |-> u.heap, stored |-> u.stored, obj |-> d]
  ELSE [heap |-> heap, stored |-> stored, obj |-> stored]

(* Objects no variable refers to any more are dropped from the heap *)
Collect(heap, stored, ts) ==
  LET live == ({stored} \cup {t.up : t \in ts} \cup {t.ap : t \in ts}) \ {0}
  IN [o \in (DOMAIN heap) \cap live |-> heap[o]]

HasAchievement(profile, id) ==
  \E i \in 1..Len(profile.achievements) : profile.achievements[i].id = id

(* The first template at or after idx that the profile has not recorded *)
NextUnrecorded(profile, idx) ==
  IF \E j \in idx..Len(ACHIEVEMENTS) : ~HasAchievement(profile, ACHIEVEMENTS[j].id)
  THEN CHOOSE j \in idx..Len(ACHIEVEMENTS) :
         /\ ~HasAchievement(profile, ACHIEVEMENTS[j].id)
         /\ \A k \in idx..(j-1) : HasAchievement(profile, ACHIEVEMENTS[k].id)
  ELSE Len(ACHIEVEMENTS) + 1

(* the level of the stored profile; a profile yet to be created has level 1 *)
StoredLevel == IF storedProfile = 0 THEN 1 ELSE profiles[storedProfile].level

NoAchRet == [call |-> "none", result |-> <<>>, xp0 |-> 0, levelUp |-> FALSE,
             newLevel |-> 0, oldLevel |-> 0, acts |-> <<>>, sessions |-> <<>>,
             level0 |-> 0, amount |-> 0, threw |-> FALSE]

AchTask(kind, pc, up, ap, idx, new, acts, sessions, cand, amount, xp0, oldLevel) ==
  [tid |-> FreshId({t.tid : t \in achTasks}), kind |-> kind, pc |-> pc,
   up |-> up, ap |-> ap, idx |-> idx, new |-> new, acts |-> acts,
   sessions |-> sessions, cand |-> cand, amount |-> amount, xp0 |-> xp0,
   oldLevel |-> oldLevel, level0 |-> StoredLevel]

(* checkAchievements lines 33-57 from the head of the loop at template    *)
(* idx: recorded templates are passed over without an await; the call     *)
(* suspends at the await of evaluateAchievement (line 37), or after the   *)
(* loop at the await of updateUserProfile (line 54), or returns.          *)
CheckContinue(t, idx, heap, stored, others) ==
  LET j == NextUnrecorded(heap[t.up], idx) IN
  IF j <= Len(ACHIEVEMENTS)
  THEN LET t1 == [t EXCEPT !.pc = "evaluated", !.idx = j, !.ap = 0,
                    !.cand = evaluateAchievement(ACHIEVEMENTS[j], t.acts,
                                                 t.sessions, heap[t.up])]
       IN /\ achTasks' = others \cup {t1}
          /\ profiles' = Collect(heap, stored, others \cup {t1})
          /\ storedProfile' = stored
          /\ achRet' = NoAchRet
  ELSE IF Len(t.new) > 0
  THEN LET heap1 == [heap EXCEPT ![t.up].achievements = @ \o t.new]
           u  == UpdateUserProfile(heap1, t.up)
           t1 == [t EXCEPT !.pc = "saving", !.idx = j, !.ap = 0]
       IN /\ achTasks' = others \cup {t1}
          /\ profiles' = Collect(u.heap, u.stored, others \cup {t1})
          /\ storedProfile' = u.stored
          /\ achRet' = NoAchRet
  ELSE /\ achTasks' = others
       /\ profiles' = Collect(heap, stored, others)
       /\ storedProfile' = stored
       /\ achRet' = [NoAchRet EXCEPT !.call = "checkAchievements", !.xp0 = t.xp0,
                                     !.acts = t.acts, !.sessions = t.sessions]

StoredXp == IF storedProfile = 0 THEN 0 ELSE profiles[storedProfile].xp

(* checkAchievements line 29: getUserProfile *)
CheckAchievements(acts, sessions) ==
  /\ nAchCalls < MaxAchCalls
  /\ nAchCalls' = nAchCalls + 1
  /\ LET g == GetUserProfile(profiles, storedProfile)
         t == AchTask("check", "got", g.obj, 0, 1, <<>>, acts, sessions,
                      NoCandidate, 0, StoredXp, 0)
     IN /\ achTasks' = achTasks \cup {t}
        /\ profiles' = Collect(g.heap, g.stored, achTasks \cup {t})
        /\ storedProfile' = g.stored
  /\ achRet' = NoAchRet
  /\ UNCHANGED <<storedActivities, rewardGrants, xpAwarded>>
  /\ UNCHANGED <<ttVars, stVars>>

(* after the await of getUserProfile: the loop begins *)
CheckGotProfile(t) ==
  /\ t \in achTasks /\ t.kind = "check" /\ t.pc = "got"
  /\ CheckContinue(t, 1, profiles, storedProfile, achTasks \ {t})
  /\ UNCHANGED <<storedActivities, rewardGrants, xpAwarded, nAchCalls>>
  /\ UNCHANGED <<ttVars, stVars>>

(* lines 38-43 after the await of evaluateAchievement; awardXP runs up to *)
(* its await of getUserProfile (line 64)                                   *)
CheckEvaluated(t) ==
  /\ t \in achTasks /\ t.kind = "check" /\ t.pc = "evaluated"
  /\ IF t.cand.progress >= 100
     THEN LET a  == [t.cand EXCEPT !.unlockedAt = now]
              g  == GetUserProfile(profiles, storedProfile)
              t1 == [t EXCEPT !.pc = "awardGot", !.new = Append(@, a),
                       !.ap = g.obj, !.amount = a.xpReward]
          IN /\ achTasks' = (achTasks \ {t}) \cup {t1}
             /\ profiles' = Collect(g.heap, g.stored, (achTasks \ {t}) \cup {t1})
             /\ storedProfile' = g.stored
             /\ achRet' = NoAchRet
     ELSE CheckContinue(t, t.idx + 1, profiles, storedProfile, achTasks \ {t})
  /\ UNCHANGED <<storedActivities, rewardGrants, xpAwarded, nAchCalls>>
  /\ UNCHANGED <<ttVars, stVars>>

(* awardXP called by the user of the service, up to its first await *)
AwardXP(amount) ==
  /\ nAchCalls < MaxAchCalls
  /\ nAchCalls' = nAchCalls + 1
  /\ LET g == GetUserProfile(profiles, storedProfile)
         t == AchTask("award", "awardGot", 0, g.obj, 0, <<>>, <<>>, <<>>,
                      NoCandidate, amount, StoredXp, 0)
     IN /\ achTasks' = achTasks \cup {t}
        /\ profiles' = Collect(g.heap, g.stored, achTasks \cup {t})
        /\ storedProfile' = g.stored
  /\ achRet' = NoAchRet
  /\ UNCHANGED <<storedActivities, rewardGrants, xpAwarded>>
  /\ UNCHANGED <<ttVars, stVars>>

(* an addition that forgets the xp the profile already has *)
AddXpReplacing(xp, amount) == amount

(* awardXP line 67: userProfile.xp += amount *)
AddXp(xp, amount) == xp + amount

(* a comparison that also reports an unchanged level *)
LevelUpOrSame(newLevel, oldLevel) == newLevel >= oldLevel

(* awardXP line 72: levelUp *)
LevelUp(newLevel, oldLevel) == newLevel > oldLevel

(* awardXP lines 65-70: add, recompute the level, store *)
AwardGotProfile(t) ==
  /\ t \in achTasks /\ t.pc = "awardGot"
  /\ LET old   == profiles[t.ap]
         xp1   == AddXp(old.xp, t.amount)
         heap1 == [profiles EXCEPT ![t.ap] =
                     [old EXCEPT !.xp = xp1, !.level = calculateLevel(xp1)]]
         u     == UpdateUserProfile(heap1, t.ap)
         t1    == [t EXCEPT !.pc = "awardStored", !.oldLevel = old.level]
     IN /\ achTasks' = (achTasks \ {t}) \cup {t1}
        /\ profiles' = Collect(u.heap, u.stored, (achTasks \ {t}) \cup {t1})
        /\ storedProfile' = u.stored
  /\ rewardGrants' = IF t.kind = "check"
                     THEN [rewardGrants EXCEPT ![t.new[Len(t.new)].id] = @ + 1]
                     ELSE rewardGrants
  /\ xpAwarded' = IF t.kind # "check" THEN xpAwarded + t.amount ELSE xpAwarded
  /\ achRet' = NoAchRet
  /\ UNCHANGED <<storedActivities, nAchCalls>>
  /\ UNCHANGED <<ttVars, stVars>>

(* checkAchievements line 57 after the await of updateUserProfile *)
CheckSaved(t) ==
  /\ t \in achTasks /\ t.kind = "check" /\ t.pc = "saving"
  /\ achTasks' = achTasks \ {t}
  /\ profiles' = Collect(profiles, storedProfile, achTasks \ {t})
  /\ achRet' = [NoAchRet EXCEPT !.call = "checkAchievements", !.result = t.new,
                                !.xp0 = t.xp0, !.acts = t.acts,
                                !.sessions = t.sessions]
  /\ UNCHANGED <<storedProfile, storedActivities, rewardGrants, xpAwarded, nAchCalls>>
  /\ UNCHANGED <<ttVars, stVars>>

(* stable sort by progress, descending (line 197) *)
RECURSIVE InsertByProgress(_, _)
InsertByProgress(sorted, a) ==
  IF sorted = <<>> THEN <<a>>
  ELSE IF Head(sorted).progress >= a.progress
       THEN <<Head(sorted)>> \o InsertByProgress(Tail(sorted), a)
       ELSE <<a>> \o sorted

RECURSIVE SortByProgress(_)
SortByProgress(seq) ==
  IF seq = <<>> THEN <<>>
  ELSE InsertByProgress(SortByProgress(SubSeq(seq, 1, Len(seq) - 1)), seq[Len(seq)])

StoredRecord(profile, id) ==
  profile.achievements[CHOOSE i \in 1..Len(profile.achievements) :
     /\ profile.achievements[i].id = id
     /\ \A k \in 1..(i-1) : profile.achievements[k].id # id]

(* globalState.get('timeSessions', []) *)
StoredSessions == [i \in 1..Len(timeSessions) |-> HistoryRecord(i)]

(* getSessionHistory's default limit (limit: number = 50) *)
DefaultHistoryLimit == 50

(* getSessionHistory(limit): sessions.slice(0, limit) of the stored list, *)
(* whose head is the session saved last                                   *)
getSessionHistory(stored, limit) == SubSeq(stored, 1, Min(limit, Len(stored)))

(* getAchievementProgress with line 185 left out: every template is evaluated *)
AchievementProgressReevaluated(profile, activities, sessions) ==
  SortByProgress(
    [j \in 1..Len(ACHIEVEMENTS) |->
       evaluateAchievement(ACHIEVEMENTS[j], activities, sessions, profile)])

(* getAchievementProgress lines 177-198, read in one turn *)
AchievementProgress(profile, activities, sessions) ==
  SortByProgress(
    SelectSeq(
      [j \in 1..Len(ACHIEVEMENTS) |->
         IF HasAchievement(profile, ACHIEVEMENTS[j].id)
         THEN StoredRecord(profile, ACHIEVEMENTS[j].id)
         ELSE evaluateAchievement(ACHIEVEMENTS[j], activities, sessions, profile)],
      LAMBDA a : a # NoCandidate))

GetAchievementProgress ==
  /\ nAchCalls < MaxAchCalls
  /\ nAchCalls' = nAchCalls + 1
  /\ LET g == GetUserProfile(profiles, storedProfile)
     IN /\ profiles' = Collect(g.heap, g.stored, achTasks)
        /\ storedProfile' = g.stored
        /\ achRet' = [NoAchRet EXCEPT !.call = "getAchievementProgress",
                        !.result = AchievementProgress(g.heap[g.obj],
                                     storedActivities, StoredSessions),
                        !.acts = storedActivities, !.sessions = StoredSessions]
  /\ UNCHANGED <<storedActivities, achTasks, rewardGrants, xpAwarded>>
  /\ UNCHANGED <<ttVars, stVars>>

AchInit ==
  /\ profiles = << >>
  /\ storedProfile = 0
  /\ storedActivities = << >>
  /\ achTasks = {}
  /\ achRet = NoAchRet
  /\ rewardGrants = [j \in {ACHIEVEMENTS[i].id : i \in 1..Len(ACHIEVEMENTS)} |-> 0]
  /\ nAchCalls = 0
  /\ xpAwarded = 0

(* Inputs of checkAchievements: activity logs and session histories *)
Activity(date, category, hour) == [date |-> date, category |-> category, hour |-> hour]
ActivityLogs == { << >>, << Activity(0, "Coding", 10) >> }
DeepWorkDone == [NewSession(1, "deep-work", 120, InitialFocusScore)
                   EXCEPT !.endTime = 120, !.isActive = FALSE]
SessionHistories == { << >>, << DeepWorkDone >> }
XpAmounts == {-5, 5, 95, 100}

----------------------------------------------------------------------------
(* Streaks: ActivityLoggerProvider, AnalyticsService, StatusBarService *)

Days == 0..MaxDay

(* activitiesByDate / dailyActivity: the days that have an activity *)
ActiveDays(activities) == {activities[i].date : i \in 1..Len(activities)}

(* Time zones: hours east of UTC in winter, and, where summer time is    *)
(* observed, the UTC hour (counted from day 0, 00:00) at which it ends.  *)
(* America/New_York leaves summer time on day 1 at 06:00 UTC.            *)
TimeZones ==
  { [name |-> "UTC", standard |-> 0, hasDst |-> FALSE, dstEnds |-> 0],
    [name |-> "America/New_York", standard |-> -5, hasDst |-> TRUE, dstEnds |-> 30] }

(* local time minus UTC at the instant t (hours) *)
Offset(t) == IF tz.hasDst /\ t < tz.dstEnds THEN tz.standard + 1 ELSE tz.standard

(* new Date('YYYY-MM-DD'): midnight UTC of that day, in hours *)
ParseDate(d) == 24 * d

(* date.toISOString().split('T')[0]: the UTC day of an instant *)
DateString(t) == t \div 24

(* date.setDate(date.getDate() - 1): the same local wall-clock time one  *)
(* local calendar day earlier; a wall-clock time that occurs twice       *)
(* denotes its first occurrence                                          *)
SetDateMinusOne(t) ==
  LET wall  == t + Offset(t) - 24
      early == wall - (tz.standard + 1)
      late  == wall - tz.standard
  IN IF tz.hasDst /\ early < tz.dstEnds THEN early ELSE late

(* ActivityLoggerProvider lines 236-238: one step of the walk *)
PreviousDate(currentDate) == DateString(SetDateMinusOne(ParseDate(currentDate)))

(* ActivityLoggerProvider.calculateStreak: walk back from today *)
RECURSIVE calculateStreak(_, _)
calculateStreak(activities, currentDate) ==
  IF currentDate \in ActiveDays(activities)
  THEN 1 + calculateStreak(activities, PreviousDate(currentDate))
  ELSE 0

(* ActivityLoggerProvider.calculateLongestStreak: the same walk from today *)
RECURSIVE LongestStreakLoop(_, _, _, _)
LongestStreakLoop(activities, currentDate, currentStreak, longestStreak) ==
  IF currentDate \in ActiveDays(activities)
  THEN LongestStreakLoop(activities, PreviousDate(currentDate), currentStreak + 1,
                         Max(longestStreak, currentStreak + 1))
  ELSE longestStreak

calculateLongestStreak(activities, currentDate) ==
  LongestStreakLoop(activities, currentDate, 0, 0)

(* calculateCurrentStreak lines 449-460: one Date object stepped back *)
RECURSIVE CurrentStreakLoop(_, _)
CurrentStreakLoop(activities, t) ==
  IF DateString(t) \in ActiveDays(activities)
  THEN 1 + CurrentStreakLoop(activities, SetDateMinusOne(t))
  ELSE 0

(* Object.keys(dailyActivity).sort() *)
RECURSIVE SortedDates(_)
SortedDates(days) ==
  IF days = {} THEN << >>
  ELSE LET d == CHOOSE x \in days : \A y \in days : x <= y
       IN <<d>> \o SortedDates(days \ {d})

(* AnalyticsService.analyzeStreakPatterns lines 164-175: the longest run *)
RECURSIVE StreakScan(_, _, _, _)
StreakScan(dates, i, currentStreak, longestStreak) ==
  IF i > Len(dates) THEN longestStreak
  ELSE IF i = Len(dates) \/ dates[i + 1] - dates[i] > 1
       THEN StreakScan(dates, i + 1, 0, Max(longestStreak, currentStreak + 1))
       ELSE StreakScan(dates, i + 1, currentStreak + 1, longestStreak)

(* AnalyticsService.calculateCurrentStreak *)
calculateCurrentStreak(activities, currentDate) ==
  CurrentStreakLoop(activities, ParseDate(currentDate))

analyzeStreakPatterns(activities, currentDate) ==
  [currentStreak |-> calculateCurrentStreak(activities, currentDate),
   longestStreak |-> StreakScan(SortedDates(ActiveDays(activities)), 1, 0, 0)]

(* StatusBarService.calculateCurrentStreak *)
StatusBarCurrentStreak(activities, currentDate) ==
  IF Len(activities) = 0 THEN 0
  ELSE CurrentStreakLoop(activities, ParseDate(currentDate))

NoImport == [pc |-> "none", userProfile |-> << >>]
NoReport == [view |-> "none", currentStreak |-> 0, longestStreak |-> 0, days |-> {}, asOf |-> 0]

(* Activity logs of up to MaxLogLen entries, in any order of dates *)
StreakLogs ==
  UNION {{[i \in 1..n |-> Activity(f[i], "Coding", 10)] : f \in [1..n -> Days]}
         : n \in 0..MaxLogLen}

(* data.userProfile of a backup file: missing (<<>>), or one profile *)
BackupProfiles ==
  { << >>, <<DefaultProfile>>, <<[DefaultProfile EXCEPT !.longestStreak = MaxDay + 1]>> }

(* ActivityLoggerProvider lines 46-52: the state handed to the webview *)
LoggerView(activities) ==
  /\ streakReport' = [view |-> "logger",
                      currentStreak |-> calculateStreak(activities, today),
                      longestStreak |-> calculateLongestStreak(activities, today),
                      days |-> ActiveDays(activities), asOf |-> today]
  /\ UNCHANGED <<today, tz, xVars, importTask, probe, logged>>
  /\ UNCHANGED <<ttVars, achVars>>

(* DataExportService lines 128 and 231: the analytics of a report *)
AnalyticsView(activities) ==
  /\ LET a == analyzeStreakPatterns(activities, today)
     IN streakReport' = [view |-> "analytics", currentStreak |-> a.currentStreak,
                         longestStreak |-> a.longestStreak,
                         days |-> ActiveDays(activities), asOf |-> today]
  /\ UNCHANGED <<today, tz, xVars, importTask, probe, logged>>
  /\ UNCHANGED <<ttVars, achVars>>

(* StatusBarService.updateAll lines 510-523 *)
StatusBarReport ==
  [view |-> "statusBar",
   currentStreak |-> StatusBarCurrentStreak(storedActivities, today),
   longestStreak |-> IF storedProfile = 0 THEN 0
                     ELSE profiles[storedProfile].longestStreak,
   days |-> ActiveDays(storedActivities), asOf |-> today]

UpdateAll ==
  /\ streakReport' = StatusBarReport
  /\ UNCHANGED <<today, tz, xVars, importTask, probe, logged>>
  /\ UNCHANGED <<ttVars, achVars>>

(* awardXP lines 72-77 after the await of updateUserProfile. Inside        *)
(* checkAchievements the loop goes on (line 46); in shipActivity the       *)
(* session history is read and checkAchievements runs up to its first      *)
(* await (ActivityLoggerProvider lines 155-156); in the quick-log command  *)
(* the status bar is redrawn                                               *)
AwardStored(t) ==
  /\ t \in achTasks /\ t.pc = "awardStored"
  /\ LET returned == [NoAchRet EXCEPT !.call = "awardXP", !.xp0 = t.xp0,
                        !.level0 = t.level0, !.amount = t.amount,
                        !.levelUp = LevelUp(profiles[t.ap].level, t.oldLevel),
                        !.newLevel = profiles[t.ap].level,
                        !.oldLevel = t.oldLevel]
     IN CASE t.kind = "check" ->
               CheckContinue(t, t.idx + 1, profiles, storedProfile, achTasks \ {t})
          [] t.kind = "ship" ->
               LET g  == GetUserProfile(profiles, storedProfile)
                   t1 == [t EXCEPT !.kind = "check", !.pc = "got", !.up = g.obj,
                            !.ap = 0, !.idx = 1,
                            !.sessions = getSessionHistory(StoredSessions,
                                                           DefaultHistoryLimit),
                            !.xp0 = StoredXp, !.level0 = StoredLevel]
               IN /\ achTasks' = (achTasks \ {t}) \cup {t1}
                  /\ profiles' = Collect(g.heap, g.stored, (achTasks \ {t}) \cup {t1})
                  /\ storedProfile' = g.stored
                  /\ achRet' = returned
          [] OTHER ->
               /\ achTasks' = achTasks \ {t}
               /\ profiles' = Collect(profiles, storedProfile, achTasks \ {t})
               /\ storedProfile' = storedProfile
               /\ achRet' = returned
  /\ streakReport' = IF t.kind = "quick" THEN StatusBarReport ELSE streakReport
  /\ UNCHANGED <<storedActivities, rewardGrants, xpAwarded, nAchCalls>>
  /\ UNCHANGED <<today, tz, xVars, importTask, probe, logged>>
  /\ UNCHANGED ttVars

(* the record of an activity that was logged and of the xp computed for it *)
LogReport(path, activities, activity, streak, xp) ==
  [path |-> path, days |-> ActiveDays(activities), date |-> activity.date,
   asOf |-> today, category |-> activity.category, streak |-> streak, xp |-> xp]

Logged(report) == IF logged = << >> THEN <<report>> ELSE <<report, logged[1]>>

(* the categories chosen in the form of the sidebar *)
FormCategories == {"Coding", "Code Review"}

(* ActivityLoggerProvider.shipActivity, lines 112-152, up to the first     *)
(* await of awardXP. activities is this.activities, the log read from the  *)
(* repository, and the user is signed in to GitHub (without a token only  *)
(* a message is shown, lines 115-118)                                      *)
ShipActivity(activities, category) ==
  /\ nAchCalls < MaxAchCalls
  /\ nAchCalls' = nAchCalls + 1
  /\ LET newActivity ==
           Activity(today, category, 10) @@
           [duration   |-> IF currentSession = NoSession THEN 0
                           ELSE sess[currentSession].duration,
            focusScore |-> IF currentSession = NoSession
                              \/ sess[currentSession].focusScore = 0
                           THEN 7 ELSE sess[currentSession].focusScore]
         currentStreak == calculateStreak(activities, today)
         xpEarned == calculateActivityXP(newActivity, currentStreak)
         g == GetUserProfile(profiles, storedProfile)
         t == AchTask("ship", "awardGot", 0, g.obj, 0, <<>>,
                      Append(activities, newActivity), <<>>, NoCandidate,
                      xpEarned, StoredXp, 0)
     IN /\ achTasks' = achTasks \cup {t}
        /\ profiles' = Collect(g.heap, g.stored, achTasks \cup {t})
        /\ storedProfile' = g.stored
        /\ logged' = Logged(LogReport("shipActivity", activities, newActivity,
                                      currentStreak, xpEarned))
  /\ achRet' = NoAchRet
  /\ UNCHANGED <<storedActivities, rewardGrants, xpAwarded>>
  /\ UNCHANGED <<today, tz, xVars, importTask, streakReport, probe>>
  /\ UNCHANGED ttVars

(* the mycroft.quickLogActivity command with a text, up to the await of    *)
(* globalState.update('activities', ...): the new activity is put in       *)
(* front of the stored log                                                 *)
QuickLogActivity ==
  /\ nAchCalls < MaxAchCalls
  /\ nAchCalls' = nAchCalls + 1
  /\ LET activity   == Activity(today, "Coding", 10) @@ [focusScore |-> 8]
         activities == <<activity>> \o storedActivities
         t == AchTask("quick", "updating", 0, 0, 0, <<>>, activities, <<>>,
                      NoCandidate, 0, StoredXp, 0)
     IN /\ storedActivities' = activities
        /\ achTasks' = achTasks \cup {t}
        /\ profiles' = Collect(profiles, storedProfile, achTasks \cup {t})
  /\ achRet' = NoAchRet
  /\ UNCHANGED <<storedProfile, rewardGrants, xpAwarded>>
  /\ UNCHANGED <<today, tz, xVars, importTask, streakReport, probe, logged>>
  /\ UNCHANGED ttVars

(* the command after that await: the streak of the stored log, the xp of   *)
(* the activity, and awardXP up to its first await                         *)
QuickLogUpdated(t) ==
  /\ t \in achTasks /\ t.kind = "quick" /\ t.pc = "updating"
  /\ LET currentStreak == StatusBarCurrentStreak(t.acts, today)
         xp == calculateActivityXP(t.acts[1], currentStreak)
         g  == GetUserProfile(profiles, storedProfile)
         t1 == [t EXCEPT !.pc = "awardGot", !.ap = g.obj, !.amount = xp,
                  !.xp0 = StoredXp, !.level0 = StoredLevel]
     IN /\ achTasks' = (achTasks \ {t}) \cup {t1}
        /\ profiles' = Collect(g.heap, g.stored, (achTasks \ {t}) \cup {t1})
        /\ storedProfile' = g.stored
        /\ logged' = Logged(LogReport("quickLogActivity", Tail(t.acts), t.acts[1],
                                      currentStreak, xp))
  /\ achRet' = NoAchRet
  /\ UNCHANGED <<storedActivities, rewardGrants, xpAwarded, nAchCalls>>
  /\ UNCHANGED <<today, tz, xVars, importTask, streakReport, probe>>
  /\ UNCHANGED ttVars

(* BackupService.importBackup line 184, for a file without data.sessions *)
ImportBackup(activities, userProfile) ==
  /\ importTask = NoImport
  /\ storedActivities' = activities
  /\ importTask' = [pc |-> "sessions", userProfile |-> userProfile]
  /\ UNCHANGED <<profiles, storedProfile, achTasks, achRet, rewardGrants, xpAwarded, nAchCalls>>
  /\ UNCHANGED <<today, tz, xVars, streakReport, probe, logged>>
  /\ UNCHANGED ttVars

(* importBackup line 185 *)
ImportSessions ==
  /\ importTask.pc = "sessions"
  /\ timeSessions' = << >>
  /\ importTask' = [importTask EXCEPT !.pc = "userProfile"]
  /\ UNCHANGED <<now, aliasing, sess, currentSession, sessionTimer, idleTimer,
                 timers, tasks, prompts, nCalls, ret, startedDuringEnd>>
  /\ UNCHANGED <<today, tz, xVars, streakReport, probe, logged>>
  /\ UNCHANGED achVars

(* importBackup lines 186-190 *)
ImportUserProfile ==
  /\ importTask.pc = "userProfile"
  /\ IF importTask.userProfile = << >>
     THEN /\ storedProfile' = 0
          /\ profiles' = Collect(profiles, 0, achTasks)
     ELSE LET c == FreshId(DOMAIN profiles)
          IN /\ storedProfile' = c
             /\ profiles' = Collect(profiles @@ (c :> importTask.userProfile[1]),
                                    c, achTasks)
  /\ importTask' = NoImport
  /\ UNCHANGED <<storedActivities, achTasks, achRet, rewardGrants, xpAwarded, nAchCalls>>
  /\ UNCHANGED <<today, tz, xVars, streakReport, probe, logged>>
  /\ UNCHANGED ttVars

(* midnight *)
NextDay ==
  /\ today < MaxDay
  /\ today' = today + 1
  /\ UNCHANGED <<tz, xVars, importTask, streakReport, probe, logged>>
  /\ UNCHANGED <<ttVars, achVars>>

----------------------------------------------------------------------------
(* Analytics: AnalyticsService.findMostProductiveHour *)

(* the hour that reduce starts from (line 395) *)
DefaultProductiveHour == 9

(* hourlyActivity (lines 387-392): the number of activities of each hour  *)
(* that has one                                                           *)
HourlyActivity(acts) ==
  [h \in {acts[i].hour : i \in 1..Len(acts)} |->
     Cardinality({i \in 1..Len(acts) : acts[i].hour = h})]

(* hourlyActivity[maxHour] || 0 *)
HourCount(hourly, h) == IF h \in DOMAIN hourly THEN hourly[h] ELSE 0

(* reduce over Object.entries(hourlyActivity) (lines 394-396): the keys   *)
(* of an object that are integers come in ascending order                 *)
RECURSIVE HourReduce(_, _, _, _)
HourReduce(hourly, keys, i, maxHour) ==
  IF i > Len(keys) THEN maxHour
  ELSE HourReduce(hourly, keys, i + 1,
                  IF hourly[keys[i]] > HourCount(hourly, maxHour)
                  THEN keys[i] ELSE maxHour)

findMostProductiveHour(acts) ==
  LET hourly == HourlyActivity(acts)
  IN HourReduce(hourly, SortedDates(DOMAIN hourly), 1, DefaultProductiveHour)

(* Activity lists of up to MaxHourLog entries at the hours 8, 9 and 10 *)
MaxHourLog == 4
ProbeHours == {8, 9, 10}
HourLogs ==
  UNION {{[i \in 1..n |-> Activity(0, "Coding", f[i])] : f \in [1..n -> ProbeHours]}
         : n \in 0..MaxHourLog}

FindMostProductiveHour(acts) ==
  /\ probe' = [fn |-> "findMostProductiveHour", arg |-> acts,
               result |-> findMostProductiveHour(acts),
               prevArg |-> 0, prevResult |-> 0]
  /\ UNCHANGED <<today, tz, xVars, importTask, streakReport, logged>>
  /\ UNCHANGED <<ttVars, achVars>>

HourNext == \E acts \in HourLogs : FindMostProductiveHour(acts)

----------------------------------------------------------------------------
(* Projects: ProjectService. ProjectsProvider awaits each call before it  *)
(* handles the next message, and no call waits for a timer or a request   *)
(* between getProject and globalState.update, so a call is one step.      *)

MaxProjects == 1
MaxMilestones == 2
MaxTasks == 3
MaxProjCalls == 6

NoProjRet == [call |-> "none", calls |-> 0, result |-> FALSE,
              project |-> 0, milestone |-> 0, task |-> 0]

(* new Date() of a call: each call is made later than the one before *)
ProjNow == projRet.calls + 1

ProjReturn(call, result, p, m, t) ==
  [call |-> call, calls |-> projRet.calls + 1, result |-> result,
   project |-> p, milestone |-> m, task |-> t]

(* createProject lines 29-53; the id is the place in the list *)
CreateProject ==
  /\ projRet.calls < MaxProjCalls
  /\ Len(projects) < MaxProjects
  /\ projects' = Append(projects,
                        [id |-> Len(projects) + 1, createdAt |-> ProjNow,
                         updatedAt |-> ProjNow, milestones |-> << >>])
  /\ projRet' = ProjReturn("createProject", TRUE, Len(projects) + 1, 0, 0)
  /\ UNCHANGED <<readme, loggerActivities, shipStore, shipRet, bVars>>
  /\ UNCHANGED <<today, tz, importTask, streakReport, probe, logged>>
  /\ UNCHANGED <<ttVars, achVars>>

(* updateProject lines 73-89 with updates = {milestones} *)
updateProject(list, id, milestones) ==
  [list EXCEPT ![id] = [@ EXCEPT !.milestones = milestones, !.updatedAt = ProjNow]]

(* A call that changes nothing: the project, the milestone or the task    *)
(* is not found                                                           *)
ProjNotFound(call, p, m, t) ==
  /\ projects' = projects
  /\ projRet' = ProjReturn(call, FALSE, p, m, t)

(* milestone.progress: the quotient completed / total times 100, kept as  *)
(* the two numbers of the quotient; a new milestone has progress 0        *)
Progress(completed, total) == [completed |-> completed, total |-> total]
IsHundred(progress) == progress.completed = progress.total

(* addMilestone lines 161-181 *)
AddMilestone(p) ==
  /\ projRet.calls < MaxProjCalls
  /\ IF p \notin 1..Len(projects)
     THEN ProjNotFound("addMilestone", p, 0, 0)
     ELSE /\ Len(projects[p].milestones) < MaxMilestones
          /\ LET milestone == [id |-> Len(projects[p].milestones) + 1,
                               progress |-> Progress(0, 1), tasks |-> << >>,
                               completedAt |-> << >>]
             IN projects' = updateProject(projects, p,
                                          Append(projects[p].milestones, milestone))
          /\ projRet' = ProjReturn("addMilestone", TRUE, p,
                                   Len(projects[p].milestones) + 1, 0)
  /\ UNCHANGED <<readme, loggerActivities, shipStore, shipRet, bVars>>
  /\ UNCHANGED <<today, tz, importTask, streakReport, probe, logged>>
  /\ UNCHANGED <<ttVars, achVars>>

(* addMilestoneTask lines 187-208: the task is pushed, the progress of    *)
(* the milestone is left as it is                                         *)
AddMilestoneTask(p, m) ==
  /\ projRet.calls < MaxProjCalls
  /\ IF p \notin 1..Len(projects) \/ m \notin 1..Len(projects[p].milestones)
     THEN ProjNotFound("addMilestoneTask", p, m, 0)
     ELSE /\ Len(projects[p].milestones[m].tasks) < MaxTasks
          /\ LET task == [id |-> Len(projects[p].milestones[m].tasks) + 1,
                          isCompleted |-> FALSE, completedAt |-> << >>]
             IN projects' = updateProject(projects, p,
                              [projects[p].milestones EXCEPT ![m].tasks = Append(@, task)])
          /\ projRet' = ProjReturn("addMilestoneTask", TRUE, p, m,
                                   Len(projects[p].milestones[m].tasks) + 1)
  /\ UNCHANGED <<readme, loggerActivities, shipStore, shipRet, bVars>>
  /\ UNCHANGED <<today, tz, importTask, streakReport, probe, logged>>
  /\ UNCHANGED <<ttVars, achVars>>

(* a completion that stamps the milestone whenever its progress is 100 *)
CompleteTaskRestamps(milestone, t) ==
  LET tasks1 == [milestone.tasks EXCEPT ![t].isCompleted = TRUE,
                                        ![t].completedAt = <<ProjNow>>]
      completedTasks == Cardinality({i \in 1..Len(tasks1) : tasks1[i].isCompleted})
      progress == Progress(completedTasks, Len(tasks1))
  IN [milestone EXCEPT !.tasks = tasks1, !.progress = progress,
                       !.completedAt = IF IsHundred(progress)
                                       THEN <<ProjNow>> ELSE @]

(* completeMilestoneTask lines 229-240 on a milestone and its task t *)
CompleteTask(milestone, t) ==
  LET tasks1 == [milestone.tasks EXCEPT ![t].isCompleted = TRUE,
                                       ![t].completedAt = <<ProjNow>>]
      completedTasks == Cardinality({i \in 1..Len(tasks1) : tasks1[i].isCompleted})
      progress == Progress(completedTasks, Len(tasks1))
  IN [milestone EXCEPT !.tasks = tasks1, !.progress = progress,
                       !.completedAt = IF IsHundred(progress) /\ @ = << >>
                                       THEN <<ProjNow>> ELSE @]

(* completeMilestoneTask lines 213-244 *)
CompleteMilestoneTask(p, m, t) ==
  /\ projRet.calls < MaxProjCalls
  /\ IF \/ p \notin 1..Len(projects)
        \/ m \notin 1..Len(projects[p].milestones)
        \/ t \notin 1..Len(projects[p].milestones[m].tasks)
     THEN ProjNotFound("completeMilestoneTask", p, m, t)
     ELSE /\ projects' = updateProject(projects, p,
                           [projects[p].milestones EXCEPT ![m] = CompleteTask(@, t)])
          /\ projRet' = ProjReturn("completeMilestoneTask", TRUE, p, m, t)
  /\ UNCHANGED <<readme, loggerActivities, shipStore, shipRet, bVars>>
  /\ UNCHANGED <<today, tz, importTask, streakReport, probe, logged>>
  /\ UNCHANGED <<ttVars, achVars>>

ProjectNext ==
  \/ CreateProject
  \/ \E p \in 1..MaxProjects : AddMilestone(p)
  \/ \E p \in 1..MaxProjects, m \in 1..MaxMilestones : AddMilestoneTask(p, m)
  \/ \E p \in 1..MaxProjects, m \in 1..MaxMilestones, t \in 1..MaxTasks :
       CompleteMilestoneTask(p, m, t)

----------------------------------------------------------------------------
(* Logging from the sidebar, each call run to its end before the next *)

(* globalState before the first log: the three keys are absent, and      *)
(* `|| 0` reads an absent counter as 0                                    *)
NoShipStore == [currentStreak |-> 0, lastActivityDate |-> << >>, totalShips |-> 0]

NoShipRet ==
  [call |-> "none", calls |-> 0, failed |-> FALSE, date |-> 0, hour |-> 0,
   store0 |-> NoShipStore, xp0 |-> 0, achievements0 |-> << >>, activities0 |-> << >>,
   computed |-> 0, streakMessage |-> FALSE, shipsMessage |-> FALSE]

(* awardXP lines 63-78, with no other call between its awaits *)
AwardXPRun(st, amount) ==
  LET g     == GetUserProfile(st.heap, st.stored)
      old   == g.heap[g.obj]
      xp1   == AddXp(old.xp, amount)
      heap1 == [g.heap EXCEPT ![g.obj] =
                  [old EXCEPT !.xp = xp1, !.level = calculateLevel(xp1)]]
      u     == UpdateUserProfile(heap1, g.obj)
  IN [heap |-> u.heap, stored |-> u.stored, new |-> st.new]

(* checkAchievements lines 33-49: the loop from template j on, userProfile *)
(* being the object up                                                     *)
RECURSIVE CheckLoop(_, _, _, _, _)
CheckLoop(st, up, j, acts, sessions) ==
  IF j > Len(ACHIEVEMENTS) THEN st
  ELSE IF HasAchievement(st.heap[up], ACHIEVEMENTS[j].id)
  THEN CheckLoop(st, up, j + 1, acts, sessions)
  ELSE LET achievement == evaluateAchievement(ACHIEVEMENTS[j], acts, sessions,
                                              st.heap[up])
       IN IF achievement # NoCandidate /\ achievement.progress >= 100
          THEN CheckLoop(AwardXPRun([st EXCEPT !.new =
                                       Append(@, [achievement EXCEPT !.unlockedAt = now])],
                                    achievement.xpReward),
                         up, j + 1, acts, sessions)
          ELSE CheckLoop(st, up, j + 1, acts, sessions)

(* checkAchievements lines 51-57: the new achievements are pushed onto   *)
(* userProfile, which is stored                                         *)
CheckSave(r, up) ==
  IF Len(r.new) > 0
  THEN LET heap1 == [r.heap EXCEPT ![up].achievements = @ \o r.new]
           u     == UpdateUserProfile(heap1, up)
       IN [heap |-> u.heap, stored |-> u.stored, new |-> r.new]
  ELSE r

(* checkAchievements lines 28-58, with no other call between its awaits *)
CheckAchievementsRun(st, acts, sessions) ==
  CHOOSE saved \in
    UNION {{CheckSave(r, g.obj) :
              r \in {CheckLoop([heap |-> g.heap, stored |-> g.stored, new |-> << >>],
                               g.obj, 1, acts, sessions)}} :
           g \in {GetUserProfile(st.heap, st.stored)}} : TRUE

(* getYesterday lines 219-223 at the instant t (hours since day 0, 00:00  *)
(* UTC): the local calendar day is stepped back, the UTC day is printed   *)
getYesterday(t) == DateString(SetDateMinusOne(t))

(* updateStreakAndMilestones lines 195-209: the three keys afterwards *)
updateStreakAndMilestones(store, date, yesterday) ==
  [currentStreak |->
     IF store.lastActivityDate = <<date>> THEN store.currentStreak
     ELSE IF store.lastActivityDate = <<yesterday>> THEN store.currentStreak + 1
     ELSE 1,
   lastActivityDate |-> <<date>>,
   totalShips |-> store.totalShips + 1]

(* the streak and the number of ships at which a message is shown         *)
(* (lines 211 and 214)                                                    *)
StreakMilestone == 7
ShipsMilestone == 100

(* Instants of a day at which the form is submitted (UTC hours), the      *)
(* outcomes of the two requests for the remote README.md, and the number  *)
(* of days and of submissions that are followed                           *)
LogHours == {0, 12}
ShipOutcomes == {"ok", "readFails", "writeFails"}
MaxShipDay == 7
MaxShips == 3

(* What shipActivity reads and writes: the profile store, the table of    *)
(* README.md, this.activities, the three keys, and the history counters   *)
LoggerState ==
  [heap |-> profiles, stored |-> storedProfile, readme |-> readme,
   acts |-> loggerActivities, store |-> shipStore, grants |-> rewardGrants,
   awarded |-> xpAwarded]

(* shipActivity line 132-146: the activity of the form; session is        *)
(* getCurrentSession(), << >> for undefined                               *)
NewActivity(session, day, category, hour) ==
  Activity(day, category, (hour + Offset(24 * day + hour) + 24) % 24) @@
  [duration   |-> IF session = << >> THEN 0 ELSE session[1].duration,
   focusScore |-> IF session = << >> \/ session[1].focusScore = 0
                  THEN 7 ELSE session[1].focusScore]

(* The handler of the sidebar's 'shipActivity' message (lines 58-63):     *)
(* shipActivity lines 112-193 for a signed-in user, then refreshWebview   *)
(* lines 270-272. The XP is awarded and the achievements are checked      *)
(* before README.md is read and written; an error of either request is    *)
(* caught at line 189, after which neither the table nor the three keys   *)
(* have changed. loadActivities then reads the table again.               *)
ShipStored(s, newActivity, xpEarned, checked, day, category, hour, outcome) ==
  LET readme1 == IF outcome = "ok"
                 THEN <<Activity(day, category, newActivity.hour)>> \o s.readme
                 ELSE s.readme
  IN [heap |-> Collect(checked.heap, checked.stored, {}),
      stored |-> checked.stored,
      readme |-> readme1,
      acts |-> readme1,
      store |-> IF outcome = "ok"
                THEN updateStreakAndMilestones(s.store, day,
                                               getYesterday(24 * day + hour))
                ELSE s.store,
      grants |-> [id \in DOMAIN s.grants |->
                    s.grants[id]
                      + Cardinality({i \in 1..Len(checked.new) : checked.new[i].id = id})],
      awarded |-> s.awarded + xpEarned]

ShipRun(s, session, sessions, day, category, hour, outcome) ==
  LET newActivity   == NewActivity(session, day, category, hour)
      currentStreak == calculateStreak(s.acts, day)
      xpEarned      == calculateActivityXP(newActivity, currentStreak)
  IN CHOOSE s1 \in
       UNION {{ShipStored(s, newActivity, xpEarned, checked, day, category, hour,
                          outcome) :
                 checked \in {CheckAchievementsRun(awarded,
                                                   Append(s.acts, newActivity),
                                                   sessions)}} :
              awarded \in {AwardXPRun([heap |-> s.heap, stored |-> s.stored,
                                       new |-> << >>], xpEarned)}} : TRUE

ShipActivityRun(category, hour, outcome) ==
  /\ shipRet.calls < MaxShips
  /\ achTasks = {}
  /\ shipRet.date = today => hour >= shipRet.hour
  /\ LET session     == IF currentSession = NoSession THEN << >>
                        ELSE <<sess[currentSession]>>
         newActivity == NewActivity(session, today, category, hour)
         s1 == ShipRun(LoggerState, session,
                       getSessionHistory(StoredSessions, DefaultHistoryLimit),
                       today, category, hour, outcome)
     IN /\ profiles' = s1.heap
        /\ storedProfile' = s1.stored
        /\ rewardGrants' = s1.grants
        /\ xpAwarded' = s1.awarded
        /\ readme' = s1.readme
        /\ loggerActivities' = s1.acts
        /\ shipStore' = s1.store
        /\ logged' = Logged(LogReport("shipActivity", loggerActivities, newActivity,
                                      calculateStreak(loggerActivities, today),
                                      s1.awarded - xpAwarded))
        /\ streakReport' = [view |-> "logger",
                            currentStreak |-> calculateStreak(s1.acts, today),
                            longestStreak |-> calculateLongestStreak(s1.acts, today),
                            days |-> ActiveDays(s1.acts), asOf |-> today]
        /\ shipRet' =
             [call |-> "shipActivity", calls |-> shipRet.calls + 1,
              failed |-> outcome # "ok", date |-> today, hour |-> hour,
              store0 |-> shipStore, xp0 |-> StoredXp,
              achievements0 |-> IF storedProfile = 0 THEN << >>
                                ELSE profiles[storedProfile].achievements,
              activities0 |-> loggerActivities,
              computed |-> calculateStreak(s1.acts, today),
              streakMessage |-> outcome = "ok"
                                  /\ s1.store.currentStreak = StreakMilestone,
              shipsMessage |-> outcome = "ok"
                                 /\ s1.store.totalShips = ShipsMilestone]
  /\ achRet' = NoAchRet
  /\ UNCHANGED <<storedActivities, achTasks, nAchCalls>>
  /\ UNCHANGED <<today, tz, importTask, probe, projects, projRet, bVars>>
  /\ UNCHANGED ttVars

(* midnight, followed for MaxShipDay days *)
Midnight ==
  /\ today < MaxShipDay
  /\ today' = today + 1
  /\ UNCHANGED <<tz, xVars, importTask, streakReport, probe, logged>>
  /\ UNCHANGED <<ttVars, achVars>>

ShipNext ==
  \/ \E hour \in LogHours, outcome \in ShipOutcomes :
       ShipActivityRun("Coding", hour, outcome)
  \/ Midnight

(* The logger after an activity was logged at noon on each of the days    *)
(* 0 .. k-1, no session having been started                               *)
RECURSIVE LoggedDaily(_)
LoggedDaily(k) ==
  IF k = 0
  THEN [heap |-> << >>, stored |-> 0, readme |-> << >>, acts |-> << >>,
        store |-> NoShipStore,
        grants |-> [j \in {ACHIEVEMENTS[i].id : i \in 1..Len(ACHIEVEMENTS)} |-> 0],
        awarded |-> 0]
  ELSE CHOOSE r \in {ShipRun(s, << >>, << >>, k - 1, "Coding", 12, "ok") :
                       s \in {LoggedDaily(k - 1)}} : TRUE

(* The days already logged when the model starts *)
DaysLoggedBefore == {0, 5}

(* BackupService *)

(* cleanOldBackups line 108: the number of backups kept *)
KeepBackups == 5

MaxBackupCalls == 3
MaxBackupClock == 2

NoBkRet == [call |-> "none", key |-> 0, calls |-> 0, keys |-> << >>, dropped |-> {}]

(* globalState.update(key, value): a key already present keeps its place *)
PutBackup(store, e) ==
  IF \E i \in 1..Len(store) : store[i].key = e.key
  THEN [i \in 1..Len(store) |-> IF store[i].key = e.key THEN e ELSE store[i]]
  ELSE Append(store, e)

(* globalState.update(key, undefined) *)
RemoveBackup(store, key) == SelectSeq(store, LAMBDA e : e.key # key)

(* listBackups line 100: sort by timestamp, the latest first; the sort is  *)
(* stable, so entries of one timestamp stay in the order of keys()         *)
RECURSIVE InsertByTimestamp(_, _)
InsertByTimestamp(sorted, e) ==
  IF sorted = << >> THEN << e >>
  ELSE IF Head(sorted).timestamp >= e.timestamp
       THEN << Head(sorted) >> \o InsertByTimestamp(Tail(sorted), e)
       ELSE << e >> \o sorted

RECURSIVE listBackups(_)
listBackups(store) ==
  IF store = << >> THEN << >>
  ELSE InsertByTimestamp(listBackups(SubSeq(store, 1, Len(store) - 1)),
                         store[Len(store)])

(* cleanOldBackups lines 107-109: backups.slice(5) *)
ToDelete(list) ==
  IF Len(list) > KeepBackups THEN SubSeq(list, KeepBackups + 1, Len(list)) ELSE << >>

nextBackupTask == FreshId({t.tid : t \in backupTasks})

(* createAutoBackup lines 26-47, up to the await of globalState.update:    *)
(* new Date() gives the timestamp and Date.now() the key, and the clock    *)
(* may move on by a millisecond between the two                            *)
CreateAutoBackup ==
  /\ bkRet.calls < MaxBackupCalls
  /\ \E adv \in {0, 1} :
       /\ backupClock + adv <= MaxBackupClock
       /\ backupClock' = backupClock + adv
       /\ backups' = PutBackup(backups, [key |-> backupClock + adv,
                                         timestamp |-> backupClock])
       /\ backupTasks' = backupTasks
            \cup {[tid |-> nextBackupTask, pc |-> "update",
                   key |-> backupClock + adv, todo |-> << >>]}
       /\ bkRet' = [bkRet EXCEPT !.call = "none", !.calls = @ + 1,
                                 !.keys = Append(@, backupClock + adv)]
  /\ UNCHANGED <<readme, loggerActivities, shipStore, shipRet, projects, projRet>>
  /\ UNCHANGED <<today, tz, importTask, streakReport, probe, logged>>
  /\ UNCHANGED <<ttVars, achVars>>

(* createAutoBackup line 50, cleanOldBackups line 107: the list is taken   *)
(* and awaited                                                             *)
CleanOldBackups(t) ==
  /\ t.pc = "update"
  /\ backupTasks' = (backupTasks \ {t})
       \cup {[t EXCEPT !.pc = "clean", !.todo = ToDelete(listBackups(backups))]}
  /\ bkRet' = [bkRet EXCEPT !.call = "none"]
  /\ UNCHANGED <<backups, backupClock>>
  /\ UNCHANGED <<readme, loggerActivities, shipStore, shipRet, projects, projRet>>
  /\ UNCHANGED <<today, tz, importTask, streakReport, probe, logged>>
  /\ UNCHANGED <<ttVars, achVars>>

(* cleanOldBackups lines 110-112: one turn of the loop, up to its await *)
DeleteBackup(t) ==
  /\ t.pc = "clean"
  /\ t.todo # << >>
  /\ backups' = RemoveBackup(backups, Head(t.todo).key)
  /\ backupTasks' = (backupTasks \ {t}) \cup {[t EXCEPT !.todo = Tail(@)]}
  /\ bkRet' = [bkRet EXCEPT !.call = "none",
                            !.dropped = @ \cup {e.timestamp : e \in
                               {backups[i] : i \in {j \in 1..Len(backups) :
                                  backups[j].key = Head(t.todo).key}}}]
  /\ UNCHANGED backupClock
  /\ UNCHANGED <<readme, loggerActivities, shipStore, shipRet, projects, projRet>>
  /\ UNCHANGED <<today, tz, importTask, streakReport, probe, logged>>
  /\ UNCHANGED <<ttVars, achVars>>

(* cleanOldBackups and createAutoBackup return *)
CreateAutoBackupReturns(t) ==
  /\ t.pc = "clean"
  /\ t.todo = << >>
  /\ backupTasks' = backupTasks \ {t}
  /\ bkRet' = [bkRet EXCEPT !.call = "createAutoBackup", !.key = t.key]
  /\ UNCHANGED <<backups, backupClock>>
  /\ UNCHANGED <<readme, loggerActivities, shipStore, shipRet, projects, projRet>>
  /\ UNCHANGED <<today, tz, importTask, streakReport, probe, logged>>
  /\ UNCHANGED <<ttVars, achVars>>

(* a millisecond passes *)
BackupClockTick ==
  /\ backupClock < MaxBackupClock
  /\ backupClock' = backupClock + 1
  /\ UNCHANGED <<backups, backupTasks, bkRet>>
  /\ UNCHANGED <<readme, loggerActivities, shipStore, shipRet, projects, projRet>>
  /\ UNCHANGED <<today, tz, importTask, streakReport, probe, logged>>
  /\ UNCHANGED <<ttVars, achVars>>

BackupNext ==
  \/ CreateAutoBackup
  \/ \E t \in backupTasks : CleanOldBackups(t)
  \/ \E t \in backupTasks : DeleteBackup(t)
  \/ \E t \in backupTasks : CreateAutoBackupReturns(t)
  \/ BackupClockTick

NoBackups ==
  /\ backups = << >>
  /\ backupTasks = {}
  /\ backupClock = 0
  /\ bkRet = NoBkRet

StreakInit ==
  /\ today = 0
  /\ readme = << >>
  /\ loggerActivities = << >>
  /\ shipStore = NoShipStore
  /\ shipRet = NoShipRet
  /\ projects = << >>
  /\ projRet = NoProjRet
  /\ NoBackups
  /\ tz \in TimeZones
  /\ probe = NoProbe
  /\ importTask = NoImport
  /\ streakReport = NoReport
  /\ logged = << >>

----------------------------------------------------------------------------
(* State after the constructor: setupActivityDetection has started the     *)
(* idle detection once (line 301), no session exists                       *)
TTInit ==
  /\ now = 0
  /\ aliasing \in BOOLEAN
  /\ sess = <<>>
  /\ currentSession = NoSession
  /\ timeSessions = <<>>
  /\ sessionTimer = NoTimer
  /\ idleTimer = 1
  /\ timers = {[h |-> 1, kind |-> "idle", due |-> IDLE_THRESHOLD, owner |-> NoSession]}
  /\ tasks = {}
  /\ prompts = {}
  /\ nCalls = 0
  /\ ret = NoRet
  /\ startedDuringEnd = {}

Init == TTInit /\ AchInit /\ StreakInit

(* The store holds the backups earlier runs left: none, or KeepBackups of  *)
(* them, each written before the clock of the model started               *)
BackupsBefore == {0, KeepBackups}

BackupInit ==
  /\ TTInit /\ AchInit
  /\ today = 0
  /\ readme = << >>
  /\ loggerActivities = << >>
  /\ shipStore = NoShipStore
  /\ shipRet = NoShipRet
  /\ projects = << >>
  /\ projRet = NoProjRet
  /\ tz \in TimeZones
  /\ probe = NoProbe
  /\ importTask = NoImport
  /\ streakReport = NoReport
  /\ logged = << >>
  /\ \E k \in BackupsBefore :
       backups = [i \in 1..k |-> [key |-> i - k - 1, timestamp |-> i - k - 1]]
  /\ backupTasks = {}
  /\ backupClock = 0
  /\ bkRet = NoBkRet

SpecBackup == BackupInit /\ [][BackupNext]_vars

(* The state at midnight after k days of logging *)
ShipInit ==
  /\ TTInit
  /\ tz \in TimeZones
  /\ \E k \in DaysLoggedBefore : \E s \in {LoggedDaily(k)} :
       /\ today = k
       /\ profiles = s.heap
       /\ storedProfile = s.stored
       /\ readme = s.readme
       /\ loggerActivities = s.acts
       /\ shipStore = s.store
       /\ rewardGrants = s.grants
       /\ xpAwarded = s.awarded
  /\ storedActivities = << >>
  /\ achTasks = {}
  /\ achRet = NoAchRet
  /\ nAchCalls = 0
  /\ probe = NoProbe
  /\ importTask = NoImport
  /\ streakReport = NoReport
  /\ logged = << >>
  /\ shipRet = NoShipRet
  /\ projects = << >>
  /\ projRet = NoProjRet
  /\ NoBackups

(* A deep-work session in progress that has met the idle threshold k times *)
(* already, the user having chosen 'Continue' each time and having typed   *)
(* just now (recordActivity re-armed the idle timer). The clock of the     *)
(* model starts at this moment, so the session began before time 0.        *)
IdlePenaltiesBefore == 0..InitialFocusScore
IdleSessionLength == 12 * IDLE_THRESHOLD

PenalisedSession(k) ==
  LET started == [NewSession(1, "deep-work", IdleSessionLength, InitialFocusScore)
                    EXCEPT !.startTime = 0 - k * IDLE_THRESHOLD]
  IN [started EXCEPT !.focusScore = Max(1, InitialFocusScore - k),
                     !.interruptions = k]

IdleInit ==
  /\ now = 0
  /\ aliasing \in BOOLEAN
  /\ \E k \in IdlePenaltiesBefore :
       /\ sess = << PenalisedSession(k) >>
       /\ timeSessions = << PenalisedSession(0) >>
       /\ timers = { [h |-> 2, kind |-> "session",
                      due |-> PenalisedSession(k).startTime + IdleSessionLength,
                      owner |-> 1],
                     [h |-> 3, kind |-> "idle", due |-> IDLE_THRESHOLD, owner |-> 1] }
  /\ currentSession = 1
  /\ sessionTimer = 2
  /\ idleTimer = 3
  /\ tasks = {}
  /\ prompts = {}
  /\ nCalls = 0
  /\ ret = NoRet
  /\ startedDuringEnd = {}
  /\ AchInit /\ StreakInit

Next ==
  \/ \E type \in SessionTypes, d \in ConfigLengths : StartSession(type, d)
  \/ EndSession
  \/ \E d \in CustomDurations : StartCustomSession(d)
  \/ \E type \in BreakTypes : StartBreak(type)
  \/ EndBreak
  \/ RecordActivity
  \/ \E t \in tasks : ResumeEndSession(t)
  \/ \E t \in tasks : ResumeStartSession(t)
  \/ \E t \in tasks : ResumeStartCustomSession(t)
  \/ \E tm \in timers : SessionTimerFire(tm)
  \/ \E tm \in timers : IdleTimerFire(tm)
  \/ \E p \in prompts, choice \in {"break", "end", "ok"} : PromptResolve(p, choice)
  \/ Tick

Spec == Init /\ [][Next]_vars

AchNext ==
  \/ \E acts \in ActivityLogs, ss \in SessionHistories : CheckAchievements(acts, ss)
  \/ \E amount \in XpAmounts : AwardXP(amount)
  \/ GetAchievementProgress
  \/ \E t \in achTasks : CheckGotProfile(t)
  \/ \E t \in achTasks : CheckEvaluated(t)
  \/ \E t \in achTasks : AwardGotProfile(t)
  \/ \E t \in achTasks : AwardStored(t)
  \/ \E t \in achTasks : CheckSaved(t)
  \/ Tick

SpecAch == Init /\ [][AchNext]_vars

(* The same when each call of the service returns before the next begins *)
NoAchCallSuspended == achTasks = {}

AchSeqNext ==
  \/ NoAchCallSuspended /\ \E acts \in ActivityLogs, ss \in SessionHistories :
                              CheckAchievements(acts, ss)
  \/ NoAchCallSuspended /\ \E amount \in XpAmounts : AwardXP(amount)
  \/ NoAchCallSuspended /\ GetAchievementProgress
  \/ \E t \in achTasks : CheckGotProfile(t)
  \/ \E t \in achTasks : CheckEvaluated(t)
  \/ \E t \in achTasks : AwardGotProfile(t)
  \/ \E t \in achTasks : AwardStored(t)
  \/ \E t \in achTasks : CheckSaved(t)
  \/ Tick

SpecAchSeq == Init /\ [][AchSeqNext]_vars

(* awardXP alone, each call returning before the next begins *)
AwardNext ==
  \/ NoAchCallSuspended /\ \E amount \in XpAmounts : AwardXP(amount)
  \/ \E t \in achTasks : AwardGotProfile(t)
  \/ \E t \in achTasks : AwardStored(t)

SpecAward == Init /\ [][AwardNext]_vars

(* Sessions handed to the two remaining-time functions: planned lengths,  *)
(* minutes since the start, and up to two breaks, closed or still open    *)
ProbePlanned == {0, 25, 60}
ProbeElapsed == {0, 50, 70}
ProbeBreaks ==
  { [startTime |-> 0 - 10, endTime |-> 0, duration |-> 10, type |-> "short"],
    [startTime |-> 0 - 5, endTime |-> 0 - 5, duration |-> 0, type |-> "short"],
    [startTime |-> 0, endTime |-> NoTime, duration |-> 0, type |-> "short"] }
ProbeSessions ==
  { [NewSession(1, "deep-work", planned, InitialFocusScore)
       EXCEPT !.startTime = now - elapsed, !.breaks = breaks] :
      planned \in ProbePlanned, elapsed \in ProbeElapsed,
      breaks \in UNION {[1..n -> ProbeBreaks] : n \in 0..2} }

(* getRemainingSessionTime with session as the current session *)
RemainingSessionTime(session) ==
  /\ probe' = [fn |-> "getRemainingSessionTime", arg |-> session,
               result |-> GetRemainingSessionTime(session),
               prevArg |-> 0, prevResult |-> 0]
  /\ UNCHANGED <<today, tz, xVars, importTask, streakReport, logged>>
  /\ UNCHANGED <<ttVars, achVars>>

(* TimerProvider.calculateRemainingTime(session) *)
CalculateRemainingTime(session) ==
  /\ probe' = [fn |-> "calculateRemainingTime", arg |-> session,
               result |-> calculateRemainingTime(session),
               prevArg |-> 0, prevResult |-> 0]
  /\ UNCHANGED <<today, tz, xVars, importTask, streakReport, logged>>
  /\ UNCHANGED <<ttVars, achVars>>

RemainingNext ==
  \/ \E session \in ProbeSessions : RemainingSessionTime(session)
  \/ \E session \in ProbeSessions : CalculateRemainingTime(session)

SpecRemaining == Init /\ [][RemainingNext]_vars

(* StatusBarService.calculateElapsedTime lines 543-547, in minutes *)
calculateElapsedTime(session) == now - session.startTime

(* StatusBarService.updateTimerStatus lines 390-393: the remaining time   *)
(* the status bar shows for an active session                             *)
updateTimerStatus(session) ==
  Max(0, session.duration - calculateElapsedTime(session))

UpdateTimerStatus(session) ==
  /\ session.isActive
  /\ probe' = [fn |-> "updateTimerStatus", arg |-> session,
               result |-> updateTimerStatus(session),
               prevArg |-> 0, prevResult |-> 0]
  /\ UNCHANGED <<today, tz, xVars, importTask, streakReport, logged>>
  /\ UNCHANGED <<ttVars, achVars>>

(* The status bar, the timer panel and the service shown the same session *)
StatusNext ==
  \/ \E session \in ProbeSessions : UpdateTimerStatus(session)
  \/ \E session \in ProbeSessions : RemainingSessionTime(session)
  \/ \E session \in ProbeSessions : CalculateRemainingTime(session)

SpecStatus == Init /\ [][StatusNext]_vars

(* Templates handed to evaluateAchievement: the catalog, and an entry     *)
(* whose id the switch has no case for                                    *)
ProbeTemplates ==
  {ACHIEVEMENTS[j] : j \in 1..Len(ACHIEVEMENTS)}
    \cup {[id |-> "bug_hunter", xpReward |-> 50]}

(* evaluateAchievement applied to a template, as the loops of             *)
(* checkAchievements and getAchievementProgress apply it; no path of the  *)
(* function throws                                                        *)
EvaluateAchievement(template, activities, sessions) ==
  /\ probe' = [fn |-> "evaluateAchievement", arg |-> <<template, activities, sessions>>,
               result |-> [threw |-> FALSE,
                           value |-> evaluateAchievement(template, activities,
                                                         sessions, DefaultProfile)],
               prevArg |-> 0, prevResult |-> 0]
  /\ UNCHANGED <<today, tz, xVars, importTask, streakReport, logged>>
  /\ UNCHANGED <<ttVars, achVars>>

EvaluateNext ==
  \E template \in ProbeTemplates, acts \in ActivityLogs, ss \in SessionHistories :
    EvaluateAchievement(template, acts, ss)

SpecEvaluate == Init /\ [][EvaluateNext]_vars

(* Stored histories: up to MaxHistory finished pomodoro sessions, and     *)
(* before them (saved later) up to one finished deep-work session         *)
MaxHistory == 101

PomodoroDone(i) ==
  [NewSession(i, "pomodoro", 25, InitialFocusScore)
     EXCEPT !.endTime = 25, !.isActive = FALSE]

StoredHistory(pomodoros, deepWorks) ==
  [i \in 1..deepWorks |-> DeepWorkDone] \o [i \in 1..pomodoros |-> PomodoroDone(i)]

PomodoroMaster ==
  ACHIEVEMENTS[CHOOSE j \in 1..Len(ACHIEVEMENTS) : ACHIEVEMENTS[j].id = "pomodoro_master"]

(* shipActivity lines 155-156 for the template pomodoro_master: the       *)
(* history is read with the default limit, and checkAchievements (lines   *)
(* 37-39) evaluates the template on it and unlocks it at progress 100     *)
ShipActivityCheck(stored) ==
  /\ LET sessions == getSessionHistory(stored, DefaultHistoryLimit)
         achievement == evaluateAchievement(PomodoroMaster, <<>>, sessions,
                                            DefaultProfile)
     IN probe' = [fn |-> "shipActivity", arg |-> stored,
                  result |-> [progress |-> achievement.progress,
                              unlocked |-> achievement.progress >= 100],
                  prevArg |-> 0, prevResult |-> 0]
  /\ UNCHANGED <<today, tz, xVars, importTask, streakReport, logged>>
  /\ UNCHANGED <<ttVars, achVars>>

PomodoroNext ==
  \E pomodoros \in 0..MaxHistory, deepWorks \in 0..1 :
    ShipActivityCheck(StoredHistory(pomodoros, deepWorks))

SpecPomodoro == Init /\ [][PomodoroNext]_vars

SpecShip == ShipInit /\ [][ShipNext]_vars

SpecProject == Init /\ [][ProjectNext]_vars

SpecHour == Init /\ [][HourNext]_vars

LevelNext == \E xp \in XpProbes : CalculateLevel(xp)

SpecLevel == Init /\ [][LevelNext]_vars

ActivityXpNext ==
  \E activity \in ProbeActivities, streak \in ProbeStreaks :
    CalculateActivityXP(activity, streak)

SpecActivityXp == Init /\ [][ActivityXpNext]_vars

(* Logging activities from the sidebar and with the quick-log command,   *)
(* one activity after the other                                          *)
LogNext ==
  \/ NoAchCallSuspended /\ \E acts \in StreakLogs, c \in FormCategories :
                              ShipActivity(acts, c)
  \/ NoAchCallSuspended /\ QuickLogActivity
  \/ \E t \in achTasks : QuickLogUpdated(t)
  \/ \E t \in achTasks : AwardGotProfile(t)
  \/ \E t \in achTasks : AwardStored(t)
  \/ \E t \in achTasks : CheckGotProfile(t)
  \/ \E t \in achTasks : CheckEvaluated(t)
  \/ \E t \in achTasks : CheckSaved(t)
  \/ NextDay

SpecLog == Init /\ [][LogNext]_vars

StreakNext ==
  \/ \E acts \in StreakLogs : LoggerView(acts)
  \/ \E acts \in StreakLogs : AnalyticsView(acts)
  \/ UpdateAll
  \/ \E acts \in ActivityLogs, p \in BackupProfiles : ImportBackup(acts, p)
  \/ ImportSessions
  \/ ImportUserProfile
  \/ NextDay

SpecStreak == Init /\ [][StreakNext]_vars

(* The same operations when the caller lets each of the five session     *)
(* calls return before it issues the next one                              *)
NoCallSuspended == tasks = {}

(* The operations on a session in progress *)
IdleNext ==
  \/ RecordActivity
  \/ \E tm \in timers : IdleTimerFire(tm)
  \/ \E tm \in timers : SessionTimerFire(tm)
  \/ \E p \in prompts, choice \in {"break", "end", "ok"} : PromptResolve(p, choice)
  \/ \E type \in BreakTypes : StartBreak(type)
  \/ EndBreak
  \/ EndSession
  \/ \E t \in tasks : ResumeEndSession(t)
  \/ Tick

SpecIdle == IdleInit /\ [][IdleNext]_vars

(* Sessions, editor events and the two timeouts. The event loop runs a     *)
(* timeout that is due and a continuation whose await has completed, and   *)
(* time passes: these steps are taken whenever they stay possible          *)
IdleLiveNext ==
  \/ \E type \in SessionTypes, d \in ConfigLengths : StartSession(type, d)
  \/ EndSession
  \/ RecordActivity
  \/ \E t \in tasks : ResumeEndSession(t)
  \/ \E t \in tasks : ResumeStartSession(t)
  \/ \E tm \in timers : SessionTimerFire(tm)
  \/ \E tm \in timers : IdleTimerFire(tm)
  \/ Tick

SpecIdleLive ==
  /\ Init
  /\ [][IdleLiveNext]_vars
  /\ WF_vars(Tick)
  /\ WF_vars(\E tm \in timers : IdleTimerFire(tm))
  /\ WF_vars(\E tm \in timers : SessionTimerFire(tm))
  /\ WF_vars(\E t \in tasks : ResumeEndSession(t))
  /\ WF_vars(\E t \in tasks : ResumeStartSession(t))

SeqNext ==
  \/ NoCallSuspended /\ \E type \in SessionTypes, d \in ConfigLengths : StartSession(type, d)
  \/ NoCallSuspended /\ EndSession
  \/ NoCallSuspended /\ \E d \in CustomDurations : StartCustomSession(d)
  \/ NoCallSuspended /\ \E type \in BreakTypes : StartBreak(type)
  \/ NoCallSuspended /\ EndBreak
  \/ NoCallSuspended /\ \E p \in prompts, choice \in {"break", "end", "ok"} :
                          PromptResolve(p, choice)
  \/ RecordActivity
  \/ \E t \in tasks : ResumeEndSession(t)
  \/ \E t \in tasks : ResumeStartSession(t)
  \/ \E t \in tasks : ResumeStartCustomSession(t)
  \/ \E tm \in timers : SessionTimerFire(tm)
  \/ \E tm \in timers : IdleTimerFire(tm)
  \/ Tick

SpecSeq == Init /\ [][SeqNext]_vars

(* The extension activated over the history earlier runs left in the      *)
(* store: n finished sessions, the latest first, at or one below the cap   *)
HistorySizes == {HistoryCap - 1, HistoryCap}

FinishedSession(i, n) ==
  [NewSession(i, "pomodoro", 1, InitialFocusScore)
     EXCEPT !.startTime = 2 * (i - n) - 3, !.endTime = 2 * (i - n) - 2,
            !.isActive = FALSE]

HistoryInit ==
  /\ now = 0
  /\ aliasing \in BOOLEAN
  /\ \E n \in HistorySizes :
       /\ sess = [i \in 1..n |-> FinishedSession(i, n)]
       /\ timeSessions = [i \in 1..n |-> FinishedSession(n + 1 - i, n)]
  /\ currentSession = NoSession
  /\ sessionTimer = NoTimer
  /\ idleTimer = 1
  /\ timers = {[h |-> 1, kind |-> "idle", due |-> IDLE_THRESHOLD, owner |-> NoSession]}
  /\ tasks = {}
  /\ prompts = {}
  /\ nCalls = 0
  /\ ret = NoRet
  /\ startedDuringEnd = {}
  /\ AchInit /\ StreakInit

(* The three callers of saveSession and the resumption of their awaits *)
HistoryNext ==
  \/ \E type \in SessionTypes, d \in ConfigLengths : StartSession(type, d)
  \/ EndSession
  \/ \E d \in CustomDurations : StartCustomSession(d)
  \/ \E t \in tasks : ResumeEndSession(t)
  \/ \E t \in tasks : ResumeStartSession(t)
  \/ \E t \in tasks : ResumeStartCustomSession(t)

SpecHistory == HistoryInit /\ [][HistoryNext]_vars

----------------------------------------------------------------------------
(* Properties of the session state machine *)

(* The sessions that some record shows as active: the in-memory current   *)
(* session and the records of the persisted history                        *)
ActiveSessions ==
  {i \in 1..Len(sess) : currentSession = i /\ sess[i].isActive}
    \cup {HistoryRecord(i).id : i \in {j \in 1..Len(timeSessions) : HistoryRecord(j).isActive}}

(* C1: after any sequence of session calls each of which completes before *)
(* the next begins, at most one session is recorded as active, counting   *)
(* the current session and every record of the persisted history.         *)
C1_AtMostOneActive ==
  NoCallSuspended => Cardinality(ActiveSessions) <= 1

C1_Witness ==
  /\ NoCallSuspended
  /\ Len(timeSessions) = 2
  /\ currentSession = 2
  /\ sess[2].isActive
  /\ ~sess[1].isActive

PersistedActive(id) ==
  \E i \in 1..Len(timeSessions) : HistoryRecord(i).id = id /\ HistoryRecord(i).isActive

(* C2: a session started while an endSession call was suspended is still  *)
(* the current session once all calls have returned (unless it was ended  *)
(* since), it is not left persisted as active with no current session,    *)
(* and startSession returns the session it created.                       *)
C2_StartSurvivesPendingEnd ==
  /\ \A id \in startedDuringEnd :
       /\ (NoCallSuspended /\ sess[id].isActive) => currentSession = id
       /\ (NoCallSuspended /\ currentSession = NoSession) => ~PersistedActive(id)
  /\ (ret.call = "startSession" /\ ret.created \in startedDuringEnd)
       => ret.result = ret.created

OpenBreaks(s) == {i \in 1..Len(s.breaks) : s.breaks[i].endTime = NoTime}

(* C3: every session has at most one open break, and an open break is the *)
(* last element of breaks.                                                 *)
C3_AtMostOneOpenBreak ==
  \A i \in 1..Len(sess) :
    /\ Cardinality(OpenBreaks(sess[i])) <= 1
    /\ \A b \in OpenBreaks(sess[i]) : b = Len(sess[i].breaks)

(* C4: when endSession returns for a session, no completion timer and no  *)
(* idle timer scheduled during that session is still pending.             *)
C4_NoTimerAfterEndSession ==
  (ret.call = "endSession" /\ ret.result # NoSession)
    => \A tm \in timers : tm.owner # ret.result

(* C5: a step taken by a timer callback, or by the dialog a timer         *)
(* callback opened, changes no session other than the one the timer was   *)
(* scheduled for.                                                          *)
C5_CallbackTouchesOwnSessionOnly ==
  [][(ret'.origin \in {"timer", "prompt"} /\ ret'.owner # NoSession)
       => \A i \in 1..Len(sess) : i # ret'.owner => sess'[i] = sess[i]]_vars

----------------------------------------------------------------------------
(* Achievements *)

StoredAchievements ==
  IF storedProfile = 0 THEN << >> ELSE profiles[storedProfile].achievements

RECURSIVE SumRewards(_)
SumRewards(list) ==
  IF list = << >> THEN 0 ELSE Head(list).xpReward + SumRewards(Tail(list))

Recorded(id) == \E i \in 1..Len(StoredAchievements) : StoredAchievements[i].id = id

(* C6: when checkAchievements returns a non-empty list, the stored profile *)
(* holds each returned achievement with progress 100 and an unlockedAt,    *)
(* and the stored xp is the xp stored before the call plus the sum of the  *)
(* returned achievements' xpReward.                                        *)
C6_UnlockStoresAchievementAndXp ==
  (achRet.call = "checkAchievements" /\ Len(achRet.result) > 0) =>
     /\ \A i \in 1..Len(achRet.result) :
          \E k \in 1..Len(StoredAchievements) :
             /\ StoredAchievements[k].id = achRet.result[i].id
             /\ StoredAchievements[k].progress = 100
             /\ StoredAchievements[k].unlockedAt # NoTime
     /\ StoredXp = achRet.xp0 + SumRewards(achRet.result)

(* C7: in no state between two turns of the event loop does the stored    *)
(* profile's xp include an achievement's reward while the achievement is  *)
(* missing from the stored achievements, and getAchievementProgress never *)
(* reports an achievement with unlockedAt set whose reward was not added. *)
C7_UnlockAndRewardAtomic ==
  /\ \A j \in 1..Len(ACHIEVEMENTS) :
       rewardGrants[ACHIEVEMENTS[j].id] > 0 => Recorded(ACHIEVEMENTS[j].id)
  /\ achRet.call = "getAchievementProgress" =>
       \A i \in 1..Len(achRet.result) :
          achRet.result[i].unlockedAt # NoTime => rewardGrants[achRet.result[i].id] > 0

(* C8: every catalog achievement is recorded at most once in the stored   *)
(* profile's achievements and its xpReward is added to xp at most once,   *)
(* also when the awaits of two checkAchievements calls interleave.        *)
C8_RecordedAndRewardedOnce ==
  \A j \in 1..Len(ACHIEVEMENTS) :
     /\ Cardinality({i \in 1..Len(StoredAchievements) :
                       StoredAchievements[i].id = ACHIEVEMENTS[j].id}) <= 1
     /\ rewardGrants[ACHIEVEMENTS[j].id] <= 1

(* C9: once an achievement is recorded, a later getAchievementProgress or *)
(* checkAchievements call leaves the recorded entries as they are         *)
(* (progress 100, unlockedAt unchanged), getAchievementProgress returns   *)
(* each stored record as stored, and checkAchievements does not return a  *)
(* recorded achievement as newly unlocked.                                *)
C9_RecordedStaysUnlocked ==
  [][/\ SubSeq(StoredAchievements', 1, Len(StoredAchievements)) = StoredAchievements
     /\ \A i \in 1..Len(StoredAchievements) : StoredAchievements[i].progress = 100
     /\ achRet'.call = "getAchievementProgress" =>
          \A i \in 1..Len(StoredAchievements) :
             \E k \in 1..Len(achRet'.result) : achRet'.result[k] = StoredAchievements[i]
     /\ achRet'.call = "checkAchievements" =>
          \A k \in 1..Len(achRet'.result) :
             \A i \in 1..Len(StoredAchievements) :
                StoredAchievements[i].id = achRet'.result[k].id
                   => StoredAchievements[i] = achRet'.result[k]]_vars

(* first_activity is recorded and a call that finds no activity returned *)
C9_Witness ==
  /\ Recorded("first_activity")
  /\ achRet.call = "getAchievementProgress"
  /\ achRet.acts = << >>
  /\ \E k \in 1..Len(achRet.result) :
        /\ achRet.result[k].id = "first_activity"
        /\ achRet.result[k].progress = 100

----------------------------------------------------------------------------
(* Streaks *)

(* C10: every view that shows a streak pair (activity logger, streak      *)
(* analytics, status bar) shows longestStreak >= currentStreak.           *)
C10_LongestAtLeastCurrent ==
  streakReport.view # "none" => streakReport.longestStreak >= streakReport.currentStreak


(* the length of the maximal run of consecutive days that ends at day d *)
RunEndingAt(days, d) ==
  CHOOSE n \in 0..Cardinality(days) :
    /\ \A k \in 0..(n - 1) : (d - k) \in days
    /\ (d - n) \notin days

(* the length of the longest run of consecutive days anywhere in the set *)
LongestRun(days) ==
  IF days = {} THEN 0
  ELSE CHOOSE n \in 1..Cardinality(days) :
         /\ \E d \in days : RunEndingAt(days, d) = n
         /\ \A d \in days : RunEndingAt(days, d) <= n

(* C11: the current streak shown by the activity logger and by the streak *)
(* analytics is the length of the maximal run of consecutive calendar     *)
(* days with an activity that ends today (0 when today has none).         *)
C11_CurrentStreakIsRunEndingToday ==
  streakReport.view \in {"logger", "analytics"} =>
     streakReport.currentStreak = RunEndingAt(streakReport.days, streakReport.asOf)

(* C12: the longest streak shown by the activity logger and by the streak *)
(* analytics is the length of the longest run of consecutive dates in the *)
(* whole log, whatever today is.                                          *)
C12_LongestStreakIsLongestRun ==
  streakReport.view \in {"logger", "analytics"} =>
     streakReport.longestStreak = LongestRun(streakReport.days)


----------------------------------------------------------------------------
(* XP and levels *)

(* the 1-based position of the highest threshold that xp has reached *)
HighestThreshold(xp) ==
  CHOOSE i \in 1..Len(LEVEL_THRESHOLDS) :
    /\ xp >= LEVEL_THRESHOLDS[i]
    /\ \A j \in (i + 1)..Len(LEVEL_THRESHOLDS) : xp < LEVEL_THRESHOLDS[j]

(* C13: calculateLevel(xp) is the position of the highest threshold that  *)
(* xp has reached, it does not decrease when xp grows, it is 1 for xp = 0 *)
(* and it never exceeds the number of thresholds.                         *)
C13_LevelFromXp ==
  probe.fn = "calculateLevel" =>
    /\ probe.arg >= 0 => probe.result = HighestThreshold(probe.arg)
    /\ probe.prevArg <= probe.arg => probe.prevResult <= probe.result
    /\ probe.arg = 0 => probe.result = 1
    /\ probe.result \in 1..Len(LEVEL_THRESHOLDS)

(* the level of xp 0 was computed, then the level of an xp beyond the last threshold *)
C13_Witness ==
  /\ probe.fn = "calculateLevel"
  /\ probe.prevArg = 0 /\ probe.prevResult = 1
  /\ probe.arg > LEVEL_THRESHOLDS[Len(LEVEL_THRESHOLDS)]
  /\ probe.result = Len(LEVEL_THRESHOLDS)


(* the level that belongs to an xp value *)
LevelOf(xp) == IF xp >= 0 THEN HighestThreshold(xp) ELSE 1

(* C14: after any sequence of awardXP calls the stored xp is the sum of   *)
(* the amounts and the stored level is the level of that sum, so          *)
(* awardXP(a) followed by awardXP(b) leaves the same xp and level as one  *)
(* awardXP(a + b).                                                        *)
C14_AwardsAddUp ==
  (NoAchCallSuspended /\ storedProfile # 0) =>
     /\ StoredXp = xpAwarded
     /\ StoredLevel = LevelOf(xpAwarded)

(* two awards, 5 and 95 in either order, have reached what one award of 100 reaches *)
C14_Witness ==
  /\ NoAchCallSuspended
  /\ nAchCalls = 2
  /\ xpAwarded = 100
  /\ StoredXp = 100
  /\ StoredLevel = 2

(* C15: when awardXP returns, the stored level is calculateLevel of the   *)
(* stored xp, and levelUp is true exactly when the level after the call   *)
(* is greater than the level before it.                                   *)
C15_LevelFollowsXp ==
  achRet.call = "awardXP" =>
     /\ StoredLevel = calculateLevel(StoredXp)
     /\ achRet.newLevel = StoredLevel
     /\ achRet.levelUp <=> (StoredLevel > achRet.level0)

(* an award that lifted the profile from level 1 to level 2 has returned *)
C15_Witness ==
  /\ achRet.call = "awardXP"
  /\ achRet.levelUp
  /\ achRet.level0 = 1
  /\ StoredLevel = 2

(* C16: awardXP with a negative amount fails with an error and leaves the *)
(* stored xp and level as they were.                                      *)
C16_NegativeAmountRejected ==
  (achRet.call = "awardXP" /\ achRet.amount < 0) =>
     /\ achRet.threw
     /\ StoredXp = achRet.xp0
     /\ StoredLevel = achRet.level0

(* C17: no step of awardXP or checkAchievements lowers the stored xp      *)
(* (calls of awardXP with a negative amount, the subject of C16, aside).  *)
C17_XpNeverDecreases ==
  [][(\A t \in achTasks : t.amount >= 0) => StoredXp' >= StoredXp]_vars

(* C18: calculateActivityXP is the nearest integer to 5 + 0.5*duration    *)
(* (when a duration is present) + 2*currentStreak + 5 (when focusScore is  *)
(* at least 8) + the bonus of the category (Code Review 3, Documentation   *)
(* 2, Testing 2, Learning 1, every other category 0); duration 30, focus   *)
(* 9, Code Review, streak 3 give 34; the result is never negative          *)
C18_Bonus(category) ==
  CASE category = "Code Review"   -> 3
    [] category = "Documentation" -> 2
    [] category = "Testing"       -> 2
    [] category = "Learning"      -> 1
    [] OTHER                      -> 0

C18_ActivityXpFormula ==
  probe.fn = "calculateActivityXP" =>
    LET a       == probe.arg[1]
        streak  == probe.arg[2]
        halves  == 10 + (IF HasField(a, "duration") THEN a.duration ELSE 0)
                      + 4 * streak
                      + (IF HasField(a, "focusScore") /\ a.focusScore >= 8
                         THEN 10 ELSE 0)
                      + 2 * C18_Bonus(a.category)
    IN /\ 2 * probe.result - halves \in {-1, 0, 1}
       /\ probe.result >= 0
       /\ (/\ HasField(a, "duration") /\ a.duration = 30
           /\ HasField(a, "focusScore") /\ a.focusScore = 9
           /\ a.category = "Code Review" /\ streak = 3) => probe.result = 34

C18_Witness ==
  /\ probe.fn = "calculateActivityXP"
  /\ probe.arg = << [category |-> "Code Review", duration |-> 30, focusScore |-> 9], 3 >>
  /\ probe.result = 34

(* C19: the streak used for the xp of a logged activity is the streak of   *)
(* the log with the new activity in it (the run of days that ends on the   *)
(* day of logging), and the sidebar and the quick-log command compute the  *)
(* same xp for the same log and the same activity                          *)
C19_StreakAfterAppend ==
  /\ logged # << >> =>
       logged[1].streak = RunEndingAt(logged[1].days \cup {logged[1].date},
                                      logged[1].asOf)
  /\ (/\ Len(logged) = 2
      /\ logged[1].path # logged[2].path
      /\ logged[1].days = logged[2].days
      /\ logged[1].date = logged[2].date
      /\ logged[1].asOf = logged[2].asOf
      /\ logged[1].category = logged[2].category) => logged[1].xp = logged[2].xp

(* C20: the focus score of the current session is always an integer from  *)
(* 1 to 10; while a session stays active its focus score never goes up    *)
(* and its interruptions never go down; an idle penalty lowers the focus   *)
(* score by exactly 1, unless it is 1 already, and raises the              *)
(* interruptions by exactly 1                                              *)
C20_FocusInRange ==
  currentSession # NoSession => sess[currentSession].focusScore \in 1..10

C20_FocusStep ==
  /\ \A i \in DOMAIN sess :
       (i \in DOMAIN sess' /\ sess[i].isActive /\ sess'[i].isActive) =>
          /\ sess'[i].focusScore <= sess[i].focusScore
          /\ sess'[i].interruptions >= sess[i].interruptions
  /\ ret'.call = "idlePenalty" =>
       LET i == ret'.result
       IN /\ sess'[i].focusScore = IF sess[i].focusScore = 1 THEN 1
                                   ELSE sess[i].focusScore - 1
          /\ sess'[i].interruptions = sess[i].interruptions + 1

C20_FocusScoreOnlyFalls == []C20_FocusInRange /\ [][C20_FocusStep]_vars

C20_Witness ==
  /\ ret.call = "idlePenalty"
  /\ sess[ret.result].focusScore = 1
  /\ sess[ret.result].interruptions = InitialFocusScore

(* C21: every session that is created, of whatever type, begins with       *)
(* focus score 10, no interruptions, no breaks, active and without an end  *)
(* time                                                                    *)
C21_NewSessionPristine ==
  [][\A i \in DOMAIN sess' :
       i \notin DOMAIN sess =>
         /\ sess'[i].focusScore = 10
         /\ sess'[i].interruptions = 0
         /\ sess'[i].breaks = << >>
         /\ sess'[i].isActive
         /\ sess'[i].endTime = NoTime]_vars

(* C22: the idle check recurs: whenever a session is active (and the time  *)
(* bound leaves room for one more idle threshold), an idle penalty is      *)
(* applied later on unless an editor event arrives or the session ends,    *)
(* whenever the session was started and whatever timer fired before        *)
C22_SessionActive ==
  currentSession # NoSession /\ sess[currentSession].isActive

C22_IdleCheckRecurs ==
  [](( C22_SessionActive /\ now + IDLE_THRESHOLD <= MaxTime )
       => <>( \/ ret.call = "idlePenalty"
              \/ ret.call = "recordActivity"
              \/ ~C22_SessionActive ))

(* C23: endSession on an active session stamps endTime with the present   *)
(* time, makes the record inactive, replaces duration by the minutes from  *)
(* startTime to endTime (breaks not subtracted, planned length dropped)    *)
(* and saves the record; when it returns, the current session is cleared   *)
(* and the record is the result. Without a current session it returns      *)
(* nothing and changes nothing.                                            *)
C23_Called(t) == t \in tasks' /\ t \notin tasks /\ t.kind = "endSession"
C23_Returned(t) == t \in tasks /\ t \notin tasks' /\ t.kind = "endSession"

C23_EndSessionStep ==
  /\ \A t \in tasks' :
       (C23_Called(t) /\ sess[t.session].isActive) =>
          LET old == sess[t.session]
              new == sess'[t.session]
          IN /\ t.session = currentSession
             /\ new = [old EXCEPT !.endTime = now, !.isActive = FALSE,
                                  !.duration = now - old.startTime]
             /\ \E i \in 1..Len(timeSessions') : timeSessions'[i] = new
  /\ \A t \in tasks :
       (C23_Returned(t) /\ ~t.nested) =>
          /\ currentSession' = NoSession
          /\ ret'.call = "endSession" /\ ret'.result = t.session
          /\ sess' = sess /\ timeSessions' = timeSessions
  /\ (currentSession = NoSession /\ ret'.call = "endSession" /\ tasks' = tasks) =>
          /\ ret'.result = NoSession /\ ~ret'.threw
          /\ UNCHANGED <<sess, currentSession, timeSessions, timers, sessionTimer>>

C23_EndSessionFinalizes == [][C23_EndSessionStep]_vars

C23_Witness ==
  /\ ret.call = "endSession" /\ ret.result # NoSession
  /\ currentSession = NoSession
  /\ Len(sess[ret.result].breaks) = 1
  /\ sess[ret.result].endTime = 2 * IDLE_THRESHOLD
  /\ sess[ret.result].duration = 2 * IDLE_THRESHOLD
  /\ ~sess[ret.result].isActive

(* C24: once endSession has stamped the end time of a session, no step     *)
(* changes any field of that session's record                              *)
C24_FinalizedIsFrozen ==
  [][\A i \in DOMAIN sess : sess[i].endTime # NoTime => sess'[i] = sess[i]]_vars

(* C25: the remaining time of an active session is max(0, planned length  *)
(* - minutes since the start + the durations of its closed breaks), open   *)
(* breaks adding nothing; planned 60, 50 minutes gone and one closed break *)
(* of 10 minutes leave 20                                                  *)
C25_Closed(session) ==
  {k \in 1..Len(session.breaks) : session.breaks[k].endTime # NoTime}

RECURSIVE C25_Sum(_, _)
C25_Sum(session, ks) ==
  IF ks = {} THEN 0
  ELSE LET k == CHOOSE x \in ks : TRUE
       IN session.breaks[k].duration + C25_Sum(session, ks \ {k})

C25_RemainingTime ==
  probe.fn \in {"getRemainingSessionTime", "calculateRemainingTime"} =>
    LET session == probe.arg
        elapsed == now - session.startTime
        rest    == session.duration - elapsed + C25_Sum(session, C25_Closed(session))
    IN /\ probe.result = IF rest > 0 THEN rest ELSE 0
       /\ (/\ session.duration = 60 /\ elapsed = 50
           /\ Len(session.breaks) = 1 /\ session.breaks[1].endTime # NoTime
           /\ session.breaks[1].duration = 10) => probe.result = 20

C25_Witness ==
  /\ probe.fn = "getRemainingSessionTime"
  /\ probe.arg.duration = 60 /\ now - probe.arg.startTime = 50
  /\ Len(probe.arg.breaks) = 1 /\ probe.arg.breaks[1].duration = 10
  /\ probe.result = 20

(* C26: while the current session has an open break no completion timer   *)
(* is pending, and when endBreak closes the break exactly one completion   *)
(* timer is pending afterwards, due after the remaining time, also when    *)
(* the remaining time is 0                                                 *)
C26_OpenBreak(s) == \E k \in 1..Len(s.breaks) : s.breaks[k].endTime = NoTime

C26_SessionTimers(ts) == {tm \in ts : tm.kind = "session"}

C26_PausedWhileOnBreak ==
  (currentSession # NoSession /\ C26_OpenBreak(sess[currentSession]))
     => C26_SessionTimers(timers) = {}

C26_ResumedByEndBreak ==
  (ret'.call = "endBreak" /\ ret'.result # NoSession) =>
     /\ Cardinality(C26_SessionTimers(timers')) = 1
     /\ \A tm \in C26_SessionTimers(timers') :
          tm.due = now + GetRemainingSessionTime(sess'[ret'.result])

C26_BreaksPauseAndResume ==
  []C26_PausedWhileOnBreak /\ [][C26_ResumedByEndBreak]_vars

(* C27: starting a session of any type, custom ones included, while        *)
(* another session is active does not fail; the session that exists is     *)
(* finalized and saved before the new one is created and made current      *)
C27_StartDoesNotFail ==
  ret.call \in {"startSession", "startCustomSession"} => ~ret.threw

C27_PreviousFinalizedFirst ==
  \A i \in DOMAIN sess' :
    i \notin DOMAIN sess =>
      /\ currentSession' = i
      /\ \A j \in DOMAIN sess :
           /\ sess'[j].endTime # NoTime /\ ~sess'[j].isActive
           /\ \E k \in 1..Len(timeSessions') :
                timeSessions'[k].id = j /\ timeSessions'[k].endTime # NoTime

C27_StartAutoEnds == []C27_StartDoesNotFail /\ [][C27_PreviousFinalizedFirst]_vars

(* C28: startBreak without a current session fails with an error and      *)
(* changes nothing: no break is appended to any session, no timer is       *)
(* cleared or started, the session history stays as it was                 *)
C28_StartBreakStep ==
  (currentSession = NoSession /\ ret'.call = "startBreak" /\ nCalls' # nCalls) =>
     /\ ret'.threw
     /\ UNCHANGED <<sess, currentSession, timers, sessionTimer, idleTimer,
                    timeSessions, tasks>>

C28_StartBreakNeedsSession == [][C28_StartBreakStep]_vars

C28_Witness ==
  /\ ret.call = "startBreak" /\ ret.threw
  /\ currentSession = NoSession
  /\ timeSessions # << >> /\ timers # {}

C30_Completed(stored) ==
  Cardinality({i \in 1..Len(stored) :
                 stored[i].type = "pomodoro" /\ stored[i].endTime # NoTime})

C30_PomodoroMasterOverWholeHistory ==
  probe.fn = "shipActivity" =>
    /\ probe.result.progress = Min(100, C30_Completed(probe.arg))
    /\ (C30_Completed(probe.arg) >= 100 => probe.result.unlocked)

(* C31: after every logged activity the currentStreak cached in the       *)
(* stored profile equals the streak computed from the log, and once the   *)
(* activities an achievement check is given cover 7 consecutive days      *)
(* ending today, Week Warrior (streak_7) is recorded in the profile.      *)
C31_Profile == IF storedProfile = 0 THEN DefaultProfile ELSE profiles[storedProfile]

C31_WeekChecked ==
  /\ shipRet.call = "shipActivity" /\ shipRet.date = today
  /\ \A d \in (today - 6)..today : d \in ActiveDays(shipRet.activities0) \cup {today}

C31_CachedStreakMirrors ==
  /\ (shipRet.call = "shipActivity" /\ ~shipRet.failed /\ shipRet.date = today)
       => C31_Profile.currentStreak = shipRet.computed
  /\ C31_WeekChecked => HasAchievement(C31_Profile, "streak_7")

(* C32: in every state every milestone that has a task has progress      *)
(* 100 * (completed tasks) / (tasks), after addMilestoneTask as well as   *)
(* after completeMilestoneTask.                                           *)
C32_Completed(milestone) ==
  Cardinality({i \in 1..Len(milestone.tasks) : milestone.tasks[i].isCompleted})

C32_ProgressIsDerived ==
  \A p \in 1..Len(projects) : \A m \in 1..Len(projects[p].milestones) :
    LET milestone == projects[p].milestones[m]
    IN Len(milestone.tasks) > 0 =>
         milestone.progress.completed * Len(milestone.tasks)
           = C32_Completed(milestone) * milestone.progress.total

(* C33: a milestone's completedAt is set by the first                     *)
(* completeMilestoneTask call that leaves all of its tasks completed, to  *)
(* the time of that call, and no later call changes or clears it.         *)
C33_AllCompleted(milestone) ==
  Len(milestone.tasks) > 0 /\ C32_Completed(milestone) = Len(milestone.tasks)

C33_Step ==
  \A p \in 1..Len(projects) : \A m \in 1..Len(projects[p].milestones) :
    LET old == projects[p].milestones[m]
        new == projects'[p].milestones[m]
    IN /\ m \in 1..Len(projects'[p].milestones)
       /\ old.completedAt # << >> => new.completedAt = old.completedAt
       /\ (old.completedAt = << >> /\ new.completedAt # << >>)
            => /\ projRet'.call = "completeMilestoneTask" /\ projRet'.milestone = m
               /\ C33_AllCompleted(new)
               /\ new.completedAt = <<projRet'.calls>>
       /\ (old.completedAt = << >> /\ projRet'.call = "completeMilestoneTask"
             /\ projRet'.result /\ projRet'.milestone = m /\ C33_AllCompleted(new))
            => new.completedAt # << >>

C33_CompletedAtSetOnce == [][C33_Step]_vars

C33_Witness ==
  /\ projRet.call = "completeMilestoneTask" /\ projRet.result
  /\ \E p \in 1..Len(projects) : \E m \in 1..Len(projects[p].milestones) :
       LET milestone == projects[p].milestones[m]
       IN /\ milestone.completedAt # << >>
          /\ milestone.completedAt # <<projRet.calls>>
          /\ projRet.milestone = m
          /\ Len(milestone.tasks) > 1

(* C34: the most productive hour of a list of activities is the smallest  *)
(* of the hours that have the largest number of activities, and 9 for an  *)
(* empty list; hour 9 is not preferred over an earlier hour that has as   *)
(* many activities.                                                       *)
C34_Count(acts, h) == Cardinality({i \in 1..Len(acts) : acts[i].hour = h})

C34_FirstMaximum(acts) ==
  CHOOSE h \in 0..23 :
    /\ \A g \in 0..23 : C34_Count(acts, g) <= C34_Count(acts, h)
    /\ \A g \in 0..(h - 1) : C34_Count(acts, g) < C34_Count(acts, h)

C34_MostProductiveHour ==
  probe.fn = "findMostProductiveHour" =>
    probe.result = IF probe.arg = << >> THEN 9 ELSE C34_FirstMaximum(probe.arg)

----------------------------------------------------------------------------
(* C35: after any sequence of session saves the persisted history holds   *)
(* at most HistoryCap records, no two of them share an id, it is ordered   *)
(* newest-first, and it holds the sessions saved last: the oldest are the  *)
(* ones dropped.  A save of a session already in the history replaces its  *)
(* record where it stands; a first save puts the record at the front and   *)
(* moves every other record one place back.                                *)
C35_Bounded ==
  /\ Len(timeSessions) = Min(HistoryCap, Len(sess))
  /\ \A i \in 1..(Len(timeSessions) - 1) :
       /\ timeSessions[i].id > timeSessions[i + 1].id
       /\ timeSessions[i].startTime >= timeSessions[i + 1].startTime
  /\ timeSessions # << >> =>
       /\ timeSessions[1].id = Len(sess)
       /\ timeSessions[Len(timeSessions)].id = Len(sess) - Len(timeSessions) + 1

C35_Step ==
  timeSessions' # timeSessions =>
    \/ /\ Len(timeSessions') = Len(timeSessions)
       /\ \A i \in 1..Len(timeSessions) :
            \/ timeSessions'[i] = timeSessions[i]
            \/ /\ timeSessions'[i].id = timeSessions[i].id
               /\ \A j \in 1..Len(timeSessions) :
                    j # i => timeSessions'[j] = timeSessions[j]
    \/ /\ \A i \in 1..Len(timeSessions) : timeSessions[i].id # timeSessions'[1].id
       /\ Len(timeSessions') = Min(HistoryCap, Len(timeSessions) + 1)
       /\ \A i \in 2..Len(timeSessions') : timeSessions'[i] = timeSessions[i - 1]

C35_HistoryNewestFirst == [](C35_Bounded) /\ [][C35_Step]_vars

(* Two sessions were started over a full history and the first of them    *)
(* was ended: its record was replaced where it stood, two were dropped     *)
C35_Witness ==
  /\ Len(sess) = HistoryCap + 2
  /\ Len(timeSessions) = HistoryCap
  /\ timeSessions[1].id = HistoryCap + 2
  /\ timeSessions[2].id = HistoryCap + 1
  /\ timeSessions[2].endTime # NoTime
  /\ timeSessions[HistoryCap].id = 3

----------------------------------------------------------------------------
(* C36: when a createAutoBackup call has returned and no other is under    *)
(* way, at most KeepBackups backup entries exist, no entry that was        *)
(* removed is more recent than one that is kept, and the entry of the call *)
(* is among the kept; and no two createAutoBackup calls write the same key *)
C36_Returned == bkRet.call = "createAutoBackup" /\ backupTasks = {}

C36_LatestKept ==
  C36_Returned =>
    /\ Len(backups) <= KeepBackups
    /\ \A d \in bkRet.dropped : \A i \in 1..Len(backups) : d <= backups[i].timestamp
    /\ \E i \in 1..Len(backups) : backups[i].key = bkRet.key

C36_DistinctKeys ==
  \A i, j \in 1..Len(bkRet.keys) : i # j => bkRet.keys[i] # bkRet.keys[j]

C36_FiveLatestBackups == C36_LatestKept /\ C36_DistinctKeys

----------------------------------------------------------------------------
(* C37: when shipActivity fails at the read or the write of the remote     *)
(* README, the stored user profile is as it was before the call: the same  *)
(* XP and the same achievements                                            *)
C37_FailedShipLeavesProfile ==
  shipRet.call = "shipActivity" /\ shipRet.failed =>
    /\ StoredXp = shipRet.xp0
    /\ (IF storedProfile = 0 THEN << >> ELSE profiles[storedProfile].achievements)
         = shipRet.achievements0

----------------------------------------------------------------------------
(* C38: for an active session the status bar (updateTimerStatus), the      *)
(* timer panel (calculateRemainingTime) and the service                    *)
(* (getRemainingSessionTime) compute the same remaining minutes at the     *)
(* same instant, also after breaks have been closed                        *)
C38_RemainingTimesAgree ==
  probe.fn \in {"updateTimerStatus", "calculateRemainingTime",
                "getRemainingSessionTime"} =>
    /\ probe.result = updateTimerStatus(probe.arg)
    /\ probe.result = calculateRemainingTime(probe.arg)
    /\ probe.result = GetRemainingSessionTime(probe.arg)

----------------------------------------------------------------------------
(* C39: a successful log shows the 7-day message exactly when it moves the *)
(* persisted streak counter from 6 to 7, so not again on a further log of  *)
(* the same day; it leaves the counter unchanged when the previous log was *)
(* on the same day, adds 1 when the previous log was the day before, and   *)
(* sets it to 1 otherwise                                                  *)
C39_Logged == shipRet.call = "shipActivity" /\ ~shipRet.failed

C39_MessageOnce ==
  C39_Logged =>
    (shipRet.streakMessage <=>
       /\ shipRet.store0.currentStreak = StreakMilestone - 1
       /\ shipStore.currentStreak = StreakMilestone)

C39_Counter ==
  C39_Logged =>
    shipStore.currentStreak =
      IF shipRet.store0.lastActivityDate = << shipRet.date >>
      THEN shipRet.store0.currentStreak
      ELSE IF shipRet.store0.lastActivityDate = << shipRet.date - 1 >>
           THEN shipRet.store0.currentStreak + 1
           ELSE 1

C39_StreakMilestoneOnce == C39_MessageOnce /\ C39_Counter

============================================================================
